---------------------------- MODULE Spec2Model ----------------------------
(***************************************************************************)
(* A model of toshi-hazard-post: the combined SRM + GMCM logic tree        *)
(* (toshi_hazard_post/logic_tree.py), the aggregation calculation          *)
(* (toshi_hazard_post/aggregation_calc.py) and the job dispatch            *)
(* (toshi_hazard_post/aggregation.py).                                     *)
(*                                                                         *)
(* Weights are exact rationals <<numerator, denominator>> in lowest terms; *)
(* hash digests are tuples.                                                *)
(***************************************************************************)
EXTENDS Integers, Sequences, FiniteSets, TLC

VARIABLES
    srm,        \* the SourceLogicTree handed to HazardLogicTree
    gmcm,       \* the GMCMLogicTree handed to HazardLogicTree
    hlt,        \* the HazardLogicTree object: trts, gmcm_logic_tree, caches
    ret,        \* the value each property of the tree returned last
    err,        \* the exception the last property access raised, or "none"
    cb_branches,        \* the branches handed to HazardCompositeBranch
    cb_source_weight,   \* the source_weight handed to HazardCompositeBranch
    cb_built,           \* the HazardCompositeBranch constructed, if any
    br_table,           \* the branch_hash_table handed to build_branch_rates
    br_rates,           \* the component_rates handed to build_branch_rates
    br_out,             \* what build_branch_rates returned or raised, if called
    ag_rates,           \* the branch_rates handed to calculate_aggs
    ag_weights,         \* the weights handed to calculate_aggs
    ag_types,           \* the agg_types of the first call of calculate_aggs
    ag_perm,            \* the permutation applied to agg_types for the second call
    ag_out,             \* what calculate_aggs returned for agg_types, if called
    ag_out_perm,        \* what calculate_aggs returned for the permuted agg_types
    ca_pc,              \* the statement calc_aggregation is at
    ca_args,            \* task_args and shared_args of the call, with the shared arrays
    ca_file,            \* whether the scratch file at task_args.table_filepath exists
    ca_local,           \* the local variables of calc_aggregation
    ca_store,           \* the records handed to the aggregate store
    ca_err,             \* the exception that ended the call, or "none"
    ca_trace,           \* the functions called so far, in order
    ra_pc,              \* the statement run_aggregation is at
    ra_jobs,            \* the jobs generate_agg_jobs has to enumerate, in its order
    ra_next,            \* the job generate_agg_jobs slices next
    ra_futures,         \* the status of each submitted job, in submission order
    ra_files,           \* the paths of the scratch files that exist
    ra_num_jobs,        \* num_jobs
    ra_num_failed,      \* num_failed, None before line 223 assigns it
    ra_seen,            \* the futures as_completed has yielded
    ra_err,             \* the exception leaving run_aggregation, or "none"
    ra_step,            \* the setup statements run_aggregation has executed
    ra_pool,            \* the worker pool: "none", "open" or "shutdown"
    ra_shm,             \* the names of the shared memory regions that exist
    ra_args,            \* args.site_params and args.calculation.imts
    ra_sites,           \* sites as get_sites returned it, None before
    co_heap,            \* the GMCM tree objects: the caller's and the HazardLogicTree's
    co_orig,            \* the caller's GMCM tree as it was before the first construction
    co_srm,             \* the SRM tree given to the latest construction
    co_prev,            \* the region types of the SRM tree of the construction before
    co_hlt,             \* the latest HazardLogicTree object
    co_ret,             \* what its properties have returned
    co_err,             \* the exception of the latest call, or "none"
    co_n,               \* the number of constructions so far
    it_branches,        \* the branches of the HazardCompositeBranch iterated over
    it_counter,         \* its __counter attribute, None before the first __iter__
    it_state,           \* each iteration: "unstarted", "active" or "stopped"
    it_out,             \* what each iteration has been given by __next__, in order
    it_overlap,          \* whether an iteration was started while another was active
    v2_srm,             \* the SourceLogicTree given to both HazardLogicTree classes
    v2_gmcm,            \* the GMCMLogicTree given to both
    v2_weights,         \* the weights of the version2 HazardLogicTree, if asked for
    v2_main,             \* what weights of logic_tree.HazardLogicTree returned or raised, if asked for
    pq_pc,              \* the statement process_local is at
    pq_tasks,           \* the number of tasks process_local has to enqueue
    pq_fails,           \* the tasks whose processing raises
    pq_next,            \* the task process_local enqueues next
    pq_pills_put,       \* the poison pills enqueued so far
    pq_queue,           \* task_queue: tasks and pills (None) in FIFO order
    pq_unfinished,      \* the unfinished-task count of task_queue
    pq_worker,          \* each worker process: its state and the task it holds
    pq_taken,           \* how many times each task was taken from the queue
    pq_pills,           \* how many pills each worker has taken
    pq_result_queue,    \* result_queue
    pq_results,         \* results, as collected by process_local
    pq_num_jobs         \* num_jobs

treeVars == <<srm, gmcm, hlt, ret, err>>
branchVars == <<cb_branches, cb_source_weight, cb_built>>

ratesVars == <<br_table, br_rates, br_out>>

aggsVars == <<ag_rates, ag_weights, ag_types, ag_perm, ag_out, ag_out_perm>>

calcVars == <<ca_pc, ca_args, ca_file, ca_local, ca_store, ca_err, ca_trace>>

runVars == <<ra_pc, ra_jobs, ra_next, ra_futures, ra_files, ra_num_jobs, ra_num_failed,
             ra_seen, ra_err, ra_step, ra_pool, ra_shm, ra_args, ra_sites>>

constructVars == <<co_heap, co_orig, co_srm, co_prev, co_hlt, co_ret, co_err, co_n>>

iterVars == <<it_branches, it_counter, it_state, it_out, it_overlap>>

v2Vars == <<v2_srm, v2_gmcm, v2_weights, v2_main>>

poolVars == <<pq_pc, pq_tasks, pq_fails, pq_next, pq_pills_put, pq_queue, pq_unfinished, pq_worker, pq_taken, pq_pills, pq_result_queue, pq_results, pq_num_jobs>>

vars == <<treeVars, branchVars, ratesVars, aggsVars, calcVars, runVars, constructVars, iterVars, v2Vars, poolVars>>

\* the variables each part of the model leaves alone
nonTreeVars == <<branchVars, ratesVars, aggsVars, calcVars, runVars, constructVars, iterVars, v2Vars, poolVars>>
nonBranchVars == <<treeVars, ratesVars, aggsVars, calcVars, runVars, constructVars, iterVars, v2Vars, poolVars>>
nonRatesVars == <<treeVars, branchVars, aggsVars, calcVars, runVars, constructVars, iterVars, v2Vars, poolVars>>
nonAggsVars == <<treeVars, branchVars, ratesVars, calcVars, runVars, constructVars, iterVars, v2Vars, poolVars>>
nonCalcVars == <<treeVars, branchVars, ratesVars, aggsVars, runVars, constructVars, iterVars, v2Vars, poolVars>>
nonConstructVars == <<treeVars, branchVars, ratesVars, aggsVars, calcVars, runVars, iterVars, v2Vars, poolVars>>
nonIterVars == <<treeVars, branchVars, ratesVars, aggsVars, calcVars, runVars, constructVars, v2Vars, poolVars>>
nonV2Vars == <<treeVars, branchVars, ratesVars, aggsVars, calcVars, runVars, constructVars, iterVars, poolVars>>
nonPoolVars == <<treeVars, branchVars, ratesVars, aggsVars, calcVars, runVars, constructVars, iterVars, v2Vars>>
nonRunVars == <<treeVars, branchVars, ratesVars, aggsVars, calcVars, constructVars, iterVars, v2Vars, poolVars>>

\* an absent value is the empty sequence, a present value v is <<v>>
None == <<>>
Some(v) == <<v>>
The(opt) == opt[1]

-----------------------------------------------------------------------------
(* Bounds of the model                                                     *)

MaxBranches == 2     \* branches in one branch set
MaxSrmSets == 2      \* branch sets in the SRM tree
MaxComposites == 8   \* branch combinations of the two trees of one pair
MaxGsimObjects == 3  \* GMCM branch objects a directly built composite branch draws on
MaxComponents == 4   \* component branches of a directly built composite branch
MaxRows == 2         \* rows (composite branches) of a branch hash table
MaxRowLen == 2       \* digests (component branches) in a row of a branch hash table
NLevels == 2         \* levels of a rate vector
MaxAggs == 3         \* entries of agg_types
MaxFileRows == 2     \* rows of a job's scratch file
MaxJobs == 3         \* (vs30, location, imt) combinations of a run
NumWorkers == 2      \* NUM_WORKERS: the processes of the pool
MaxConstructions == 2 \* HazardLogicTrees built in sequence from one GMCM tree object
MaxIterLen == 3      \* component branches of a composite branch iterated over
MaxIterations == 2   \* iterations started on one composite branch
MaxTasks == 3        \* tasks process_local enqueues

-----------------------------------------------------------------------------
(* Sequences                                                               *)

RECURSIVE Concat(_)
Concat(ss) == IF ss = <<>> THEN <<>> ELSE Head(ss) \o Concat(Tail(ss))

\* itertools.product(*ss): the last sequence varies fastest
RECURSIVE Product(_)
Product(ss) ==
    IF ss = <<>> THEN << <<>> >>
    ELSE LET rest == Product(Tail(ss))
             hd == Head(ss)
         IN Concat([i \in 1..Len(hd) |-> [j \in 1..Len(rest) |-> <<hd[i]>> \o rest[j]]])

Range(s) == {s[i] : i \in 1..Len(s)}

-----------------------------------------------------------------------------
(* Exact arithmetic on weights                                             *)

RECURSIVE GCD(_, _)
GCD(a, b) == IF b = 0 THEN a ELSE GCD(b, a % b)

Norm(n, d) == LET g == GCD(n, d) IN IF n = 0 THEN <<0, 1>> ELSE <<n \div g, d \div g>>

One == <<1, 1>>
Zero == <<0, 1>>

RMul(a, b) == Norm(a[1] * b[1], a[2] * b[2])
RAdd(a, b) == Norm(a[1] * b[2] + b[1] * a[2], a[2] * b[2])

\* math.prod(ws): the product in list order, starting from 1
RECURSIVE MathProd(_)
MathProd(ws) == IF ws = <<>> THEN One ELSE RMul(Head(ws), MathProd(Tail(ws)))

\* sum(ws)
RECURSIVE Sum(_)
Sum(ws) == IF ws = <<>> THEN Zero ELSE RAdd(Head(ws), Sum(Tail(ws)))

-----------------------------------------------------------------------------
(* The input trees (nzshm_model objects, as the logic tree code reads them)*)

SrmTrts == {"ASC", "SLAB"}
GmcmTrts == <<"ASC", "SLAB", "INTER">>

\* branch i of a branch set of n branches weighs i / (1 + ... + n)
BranchWeight(n, i) == Norm(i, (n * (n + 1)) \div 2)

SrmTrtChoices == {{"ASC"}, {"SLAB"}, {"ASC", "SLAB"}}
SrmSingleTrts == {{"ASC"}, {"SLAB"}}

\* a branch set's shape: its size, the region types of its branches, and
\* those of its last branch (a branch carries its own region types)
SrmSetShapes ==
    {sh \in [n : 1..MaxBranches, base : SrmTrtChoices, last : SrmTrtChoices] :
        /\ sh.n = 1 => sh.last = sh.base
        /\ sh.n > 1 => sh.base \in SrmSingleTrts}

SourceBranch(k, i, sh) ==
    [bs |-> k, ix |-> i, weight |-> BranchWeight(sh.n, i),
     tectonic_region_types |-> IF i = sh.n THEN sh.last ELSE sh.base]

SrmBranchSet(k, sh) == [i \in 1..sh.n |-> SourceBranch(k, i, sh)]

\* correlations pair branch i of the first branch set with branch i of the second
Correlations(shapes) ==
    [i \in 1..shapes[1].n |->
        [primary_branch |-> SourceBranch(1, i, shapes[1]),
         associated_branches |-> <<SourceBranch(2, i, shapes[2])>>,
         weight |-> BranchWeight(shapes[1].n, i)]]

SourceLogicTree(shapes, correlated) ==
    [branch_sets |-> [k \in 1..Len(shapes) |-> SrmBranchSet(k, shapes[k])],
     correlations |-> IF correlated THEN Correlations(shapes) ELSE <<>>]

\* the trees tried: up to MaxSrmSets branch sets; only the first branch set
\* may mix region types among its branches or hold a branch of two region
\* types; correlations need two branch sets of one size
SrmShapeSeqs ==
    {shapes \in UNION {[1..k -> SrmSetShapes] : k \in 1..MaxSrmSets} :
        \A k \in 2..Len(shapes) :
            shapes[k].last = shapes[k].base /\ shapes[k].base \in SrmSingleTrts}

SrmTrees ==
    {SourceLogicTree(sc[1], sc[2]) :
        sc \in {x \in SrmShapeSeqs \X BOOLEAN :
                    x[2] => (Len(x[1]) >= 2 /\ x[1][1].n = x[1][2].n)}}

\* a GMCM branch is an object (oid) with the fields its dataclass compares
GMCMBranch(k, j, n) ==
    [oid |-> <<k, j>>, gsim_name |-> j, tectonic_region_type |-> GmcmTrts[k],
     weight |-> BranchWeight(n, j)]

GmcmBranchSet(k, n) ==
    [tectonic_region_type |-> GmcmTrts[k], branches |-> [j \in 1..n |-> GMCMBranch(k, j, n)]]

\* sizes[k] = 0: the tree has no branch set for region type k
GMCMLogicTree(sizes) ==
    [branch_sets |->
        Concat([k \in 1..Len(GmcmTrts) |->
                    IF sizes[k] = 0 THEN <<>> ELSE <<GmcmBranchSet(k, sizes[k])>>])]

\* the SRM trees never use the last region type; its branch set has one branch
GmcmTrees ==
    {GMCMLogicTree(sizes) :
        sizes \in {z \in [1..Len(GmcmTrts) -> 0..MaxBranches] : z[Len(GmcmTrts)] <= 1}}

\* SourceBranchSet.tectonic_region_types
BranchSetTrts(bs) == UNION {bs[i].tectonic_region_types : i \in 1..Len(bs)}

\* CompositeBranch.weight when none is assigned
DefaultCompositeWeight(branches) == MathProd([i \in 1..Len(branches) |-> branches[i].weight])

\* SourceLogicTree.composite_branches: the product of the branch sets; a
\* combination holding a correlation's primary branch is kept only with its
\* associated branches, and then weighs the correlation's weight times the
\* weights of the branches outside the correlation
FirstMatch(cors, branches) ==
    IF \E i \in 1..Len(cors) : cors[i].primary_branch \in Range(branches)
    THEN CHOOSE i \in 1..Len(cors) :
            /\ cors[i].primary_branch \in Range(branches)
            /\ \A j \in 1..(i - 1) : cors[j].primary_branch \notin Range(branches)
    ELSE 0

CorrelationBranches(cor) == {cor.primary_branch} \cup Range(cor.associated_branches)

SrmComposite(tree, branches) ==
    LET c == FirstMatch(tree.correlations, branches)
    IN IF c = 0
       THEN [branches |-> branches, weight |-> DefaultCompositeWeight(branches), keep |-> TRUE]
       ELSE LET cor == tree.correlations[c]
                others == SelectSeq(branches, LAMBDA b : b \notin CorrelationBranches(cor))
            IN [branches |-> branches,
                weight |-> RMul(cor.weight, DefaultCompositeWeight(others)),
                keep |-> CorrelationBranches(cor) \subseteq Range(branches)]

SrmCompositeBranches(tree) ==
    LET all == Product(tree.branch_sets)
        made == [i \in 1..Len(all) |-> SrmComposite(tree, all[i])]
        kept == SelectSeq(made, LAMBDA c : c.keep)
    IN [i \in 1..Len(kept) |-> [branches |-> kept[i].branches, weight |-> kept[i].weight]]

\* GMCMLogicTree.composite_branches, over the given branch sets
GmcmCompositeBranches(branch_sets) ==
    Product([k \in 1..Len(branch_sets) |-> branch_sets[k].branches])

\* iterating the SRM tree yields every branch of every branch set
SrmBranches(tree) == Concat(tree.branch_sets)


-----------------------------------------------------------------------------
(* toshi_hazard_post/logic_tree.py                                         *)

\* registry.source_registry.get_by_identity(registry_identity).hash_digest
source_hash_digest(source_branch) == <<"S", source_branch.bs, source_branch.ix>>

\* registry.gmm_registry.get_by_identity(registry_identity).hash_digest of the
\* only GMCM branch; the identity of a GMCM branch is its ground motion model
gmcm_hash_digest(gmcm_branches) == <<"G", gmcm_branches[1].gsim_name>>

\* a variant that raises only when no GMCM branch is given
ComponentRaises_OnlyEmpty(gmcm_branches) == Len(gmcm_branches) = 0

\* HazardComponentBranch.__init__ raises NotImplementedError (from
\* gmcm_hash_digest) unless exactly one GMCM branch is given
ComponentRaises(gmcm_branches) == Len(gmcm_branches) # 1

HazardComponentBranch(source_branch, gmcm_branches) ==
    [source_branch |-> source_branch,
     gmcm_branches |-> gmcm_branches,
     weight |-> MathProd(<<source_branch.weight>>
                    \o [i \in 1..Len(gmcm_branches) |-> gmcm_branches[i].weight]),
     hash_digest |-> <<source_hash_digest(source_branch), gmcm_hash_digest(gmcm_branches)>>]

\* GMCMBranch.__eq__: a dataclass compares its fields, not the object
GmcmEq(a, b) ==
    /\ a.gsim_name = b.gsim_name
    /\ a.tectonic_region_type = b.tectonic_region_type
    /\ a.weight = b.weight

\* membership by identity alone
NotIn_Identity(gsim, gsims) == ~ \E k \in 1..Len(gsims) : gsims[k].oid = gsim.oid

\* "gsim not in gsims": list membership is by identity or equality
NotIn(gsim, gsims) ==
    ~ \E k \in 1..Len(gsims) : gsims[k].oid = gsim.oid \/ GmcmEq(gsims[k], gsim)

\* the loop of HazardCompositeBranch.__init__ collecting the unique gsims
RECURSIVE UniqueGsims(_, _)
UniqueGsims(todo, gsims) ==
    IF todo = <<>> THEN gsims
    ELSE UniqueGsims(Tail(todo),
                     IF NotIn(Head(todo), gsims) THEN Append(gsims, Head(todo)) ELSE gsims)

HazardCompositeBranch(branches, source_weight) ==
    LET gsims == UniqueGsims(Concat([i \in 1..Len(branches) |-> branches[i].gmcm_branches]), <<>>)
        gsim_weights == [i \in 1..Len(gsims) |-> gsims[i].weight]
    IN [branches |-> branches, weight |-> RMul(MathProd(gsim_weights), source_weight)]

\* a variant that keeps every GMCM branch set
HazardLogicTree_Unfiltered(srm_logic_tree, gmcm_logic_tree) ==
    [trts |-> UNION {BranchSetTrts(srm_logic_tree.branch_sets[k]) :
                        k \in 1..Len(srm_logic_tree.branch_sets)},
     gmcm_branch_sets |-> gmcm_logic_tree.branch_sets,
     composite_branches |-> <<>>,
     component_branches |-> <<>>]

\* HazardLogicTree.__init__: the region types of the SRM tree, and the GMCM
\* branch sets of those region types
HazardLogicTree(srm_logic_tree, gmcm_logic_tree) ==
    LET trts == UNION {BranchSetTrts(srm_logic_tree.branch_sets[k]) :
                            k \in 1..Len(srm_logic_tree.branch_sets)}
    IN [trts |-> trts,
        gmcm_branch_sets |-> SelectSeq(gmcm_logic_tree.branch_sets,
                                 LAMBDA bs : bs.tectonic_region_type \in trts),
        composite_branches |-> <<>>,
        component_branches |-> <<>>]

\* the GMCM branches of a GMCM composite branch matching an SRM branch by region type
MatchingBranches(srm_branch, gmcm_composite_branch) ==
    SelectSeq(gmcm_composite_branch,
              LAMBDA b : b.tectonic_region_type \in srm_branch.tectonic_region_types)

\* product(srm composite branches, gmcm composite branches)
CompositePairs(tree, h) ==
    LET scb == SrmCompositeBranches(tree)
        gcb == GmcmCompositeBranches(h.gmcm_branch_sets)
    IN Concat([i \in 1..Len(scb) |-> [j \in 1..Len(gcb) |-> <<scb[i], gcb[j]>>]])

PairRaises(pair) ==
    \E i \in 1..Len(pair[1].branches) :
        ComponentRaises(MatchingBranches(pair[1].branches[i], pair[2]))

\* a variant that recomputes the weight from the constituent SRM branches
SourceWeight_Recomputed(srm_composite_branch) ==
    DefaultCompositeWeight(srm_composite_branch.branches)

\* the source weight handed to HazardCompositeBranch
SourceWeight(srm_composite_branch) == srm_composite_branch.weight

CompositeOfPair(pair) ==
    HazardCompositeBranch(
        [i \in 1..Len(pair[1].branches) |->
            HazardComponentBranch(pair[1].branches[i],
                                  MatchingBranches(pair[1].branches[i], pair[2]))],
        SourceWeight(pair[1]))

\* the index of the first iteration that raises, or 0 (raises[i] says whether
\* the i-th iteration raises)
FirstBad(raises) ==
    IF \E i \in 1..Len(raises) : raises[i]
    THEN CHOOSE i \in 1..Len(raises) : raises[i] /\ \A j \in 1..(i - 1) : ~raises[j]
    ELSE 0

\* HazardLogicTree._generate_composite_branches: the list is emptied and then
\* appended to pair by pair; an exception leaves the pairs built before it
GenerateCompositeBranches(tree, h) ==
    LET pairs == CompositePairs(tree, h)
        bad == FirstBad([i \in 1..Len(pairs) |-> PairRaises(pairs[i])])
        n == IF bad = 0 THEN Len(pairs) ELSE bad - 1
    IN [list |-> [i \in 1..n |-> CompositeOfPair(pairs[i])], raised |-> bad # 0]

\* the (srm branch, gmcm branches) pairs of _generate_component_branches
ComponentPairs(tree, h) ==
    LET sb == SrmBranches(tree)
    IN Concat([i \in 1..Len(sb) |->
            LET branch_sets == SelectSeq(h.gmcm_branch_sets,
                    LAMBDA bs : bs.tectonic_region_type \in sb[i].tectonic_region_types)
                prod == Product([k \in 1..Len(branch_sets) |-> branch_sets[k].branches])
            IN [j \in 1..Len(prod) |-> <<sb[i], prod[j]>>]])

ComponentPairRaises(pair) == ComponentRaises(pair[2])

\* HazardLogicTree._generate_component_branches
GenerateComponentBranches(tree, h) ==
    LET pairs == ComponentPairs(tree, h)
        bad == FirstBad([i \in 1..Len(pairs) |-> ComponentPairRaises(pairs[i])])
        n == IF bad = 0 THEN Len(pairs) ELSE bad - 1
    IN [list |-> [i \in 1..n |-> HazardComponentBranch(pairs[i][1], pairs[i][2])],
        raised |-> bad # 0]

\* the property composite_branches: generate when the cached list is empty
CompositeBranchesProperty(tree, h) ==
    IF h.composite_branches = <<>>
    THEN GenerateCompositeBranches(tree, h)
    ELSE [list |-> h.composite_branches, raised |-> FALSE]

\* the property component_branches
ComponentBranchesProperty(tree, h) ==
    IF h.component_branches = <<>>
    THEN GenerateComponentBranches(tree, h)
    ELSE [list |-> h.component_branches, raised |-> FALSE]

\* np.array([branch.weight for branch in self.composite_branches])
WeightsOf(composite_branches) ==
    [i \in 1..Len(composite_branches) |-> composite_branches[i].weight]

\* a variant whose iteration of a composite branch starts at its second branch
HashTableOf_SkipFirst(composite_branches) ==
    [i \in 1..Len(composite_branches) |->
        [j \in 1..(Len(composite_branches[i].branches) - 1) |->
            composite_branches[i].branches[j + 1].hash_digest]]

\* one list of hash digests per composite branch, in iteration order
HashTableOf(composite_branches) ==
    [i \in 1..Len(composite_branches) |->
        [j \in 1..Len(composite_branches[i].branches) |->
            composite_branches[i].branches[j].hash_digest]]

NoReturn == [composite_branches |-> None, weights |-> None,
             branch_hash_table |-> None, component_branches |-> None]

RECURSIVE NatProd(_)
NatProd(s) == IF s = <<>> THEN 1 ELSE Head(s) * NatProd(Tail(s))

\* the number of branch combinations of a pair of trees
Combinations(s, g) ==
    NatProd([k \in 1..Len(s.branch_sets) |-> Len(s.branch_sets[k])])
        * NatProd([k \in 1..Len(g.branch_sets) |-> Len(g.branch_sets[k].branches)])

TreeInit ==
    /\ srm \in SrmTrees
    /\ gmcm \in GmcmTrees
    /\ Combinations(srm, gmcm) <= MaxComposites
    /\ hlt = HazardLogicTree(srm, gmcm)
    /\ ret = NoReturn
    /\ err = "none"

\* no tree is under construction
TreeIdle ==
    /\ srm = None
    /\ gmcm = None
    /\ hlt = None
    /\ ret = NoReturn
    /\ err = "none"

\* an access that raises leaves the cache as the generation left it and
\* returns nothing
AccessCompositeBranches ==
    LET r == CompositeBranchesProperty(srm, hlt)
    IN /\ hlt' = [hlt EXCEPT !.composite_branches = r.list]
       /\ IF r.raised
          THEN /\ err' = "NotImplementedError"
               /\ ret' = ret
          ELSE /\ err' = "none"
               /\ ret' = [ret EXCEPT !.composite_branches = Some(r.list)]
       /\ UNCHANGED <<srm, gmcm>>
       /\ UNCHANGED nonTreeVars

AccessWeights ==
    LET r == CompositeBranchesProperty(srm, hlt)
    IN /\ hlt' = [hlt EXCEPT !.composite_branches = r.list]
       /\ IF r.raised
          THEN /\ err' = "NotImplementedError"
               /\ ret' = ret
          ELSE /\ err' = "none"
               /\ ret' = [ret EXCEPT !.weights = Some(WeightsOf(r.list))]
       /\ UNCHANGED <<srm, gmcm>>
       /\ UNCHANGED nonTreeVars

AccessBranchHashTable ==
    LET r == CompositeBranchesProperty(srm, hlt)
    IN /\ hlt' = [hlt EXCEPT !.composite_branches = r.list]
       /\ IF r.raised
          THEN /\ err' = "NotImplementedError"
               /\ ret' = ret
          ELSE /\ err' = "none"
               /\ ret' = [ret EXCEPT !.branch_hash_table = Some(HashTableOf(r.list))]
       /\ UNCHANGED <<srm, gmcm>>
       /\ UNCHANGED nonTreeVars

AccessComponentBranches ==
    LET r == ComponentBranchesProperty(srm, hlt)
    IN /\ hlt' = [hlt EXCEPT !.component_branches = r.list]
       /\ IF r.raised
          THEN /\ err' = "NotImplementedError"
               /\ ret' = ret
          ELSE /\ err' = "none"
               /\ ret' = [ret EXCEPT !.component_branches = Some(r.list)]
       /\ UNCHANGED <<srm, gmcm>>
       /\ UNCHANGED nonTreeVars

TreeNext ==
    \/ AccessCompositeBranches
    \/ AccessWeights
    \/ AccessBranchHashTable
    \/ AccessComponentBranches

-----------------------------------------------------------------------------
(* HazardCompositeBranch built directly from component branches            *)

\* the field values a GMCM branch object may hold
GsimFieldValues ==
    {[gsim_name |-> 1, tectonic_region_type |-> "ASC", weight |-> Norm(1, 2)],
     [gsim_name |-> 1, tectonic_region_type |-> "SLAB", weight |-> Norm(1, 2)],
     [gsim_name |-> 2, tectonic_region_type |-> "ASC", weight |-> Norm(1, 3)]}

\* the k-th GMCM branch object, holding the field values fv
GsimObject(k, fv) ==
    [oid |-> <<0, k>>, gsim_name |-> fv.gsim_name,
     tectonic_region_type |-> fv.tectonic_region_type, weight |-> fv.weight]

\* the objects: any assignment of field values, so that distinct objects may
\* be equal field by field
GsimPools == [1..MaxGsimObjects -> GsimFieldValues]

\* which object each component branch refers to
GsimPicks == UNION {[1..n -> 1..MaxGsimObjects] : n \in 1..MaxComponents}

TheSourceBranch == SourceBranch(1, 1, [n |-> 1, base |-> {"ASC", "SLAB"}, last |-> {"ASC", "SLAB"}])

BranchInit ==
    /\ \E pool \in GsimPools, picks \in GsimPicks :
          cb_branches = [i \in 1..Len(picks) |->
              HazardComponentBranch(TheSourceBranch, <<GsimObject(picks[i], pool[picks[i]])>>)]
    /\ cb_source_weight \in {One, Norm(1, 2)}
    /\ cb_built = None

BranchIdle ==
    /\ cb_branches = <<>>
    /\ cb_source_weight = One
    /\ cb_built = None

\* HazardCompositeBranch(branches, source_weight)
ConstructCompositeBranch ==
    /\ cb_built = None
    /\ cb_built' = Some(HazardCompositeBranch(cb_branches, cb_source_weight))
    /\ UNCHANGED <<cb_branches, cb_source_weight>>
    /\ UNCHANGED nonBranchVars

-----------------------------------------------------------------------------
(* aggregation_calc.py: composite rates                                    *)

\* the digests a store may hold, each with the unit of its rates
Digests == {"a", "b", "c"}
DigestUnit == [a |-> 1, b |-> 4, c |-> 16]
RateScales == {1, 3}

\* a component rate map: the rate vectors of the digests in keys
ComponentRates(keys, scale) ==
    [d \in keys |-> [l \in 1..NLevels |-> scale * DigestUnit[d] * l]]

ComponentRateMaps == {ComponentRates(keys, scale) : keys \in SUBSET Digests, scale \in RateScales}

\* branch hash tables: at least one row, the rows of one length
HashTables ==
    UNION {[1..n -> [1..k -> Digests]] : n \in 1..MaxRows, k \in 1..MaxRowLen}

\* the outcome of a call: the exception raised ("none" if it returned) and
\* the value returned
Returned(v) == [err |-> "none", value |-> Some(v)]
Raised(e) == [err |-> e, value |-> None]

\* np.zeros((nlevels,))
np_zeros(nlevels) == [l \in 1..nlevels |-> 0]

\* rates = component_rates[branch_hash]
AddInPlace_Assign(rates, v) == v

\* rates += component_rates[branch_hash], for vectors of one length
AddInPlace(rates, v) == [l \in 1..Len(rates) |-> rates[l] + v[l]]

\* the loop with a missing digest counted as a zero rate
RECURSIVE SumLoop_MissingAsZero(_, _, _)
SumLoop_MissingAsZero(branch_hashes, component_rates, rates) ==
    IF branch_hashes = <<>> THEN Returned(rates)
    ELSE SumLoop_MissingAsZero(Tail(branch_hashes), component_rates,
            IF Head(branch_hashes) \in DOMAIN component_rates
            THEN AddInPlace(rates, component_rates[Head(branch_hashes)])
            ELSE rates)

\* the loop of calc_composite_rates from the given accumulator on
RECURSIVE SumLoop(_, _, _)
SumLoop(branch_hashes, component_rates, rates) ==
    IF branch_hashes = <<>> THEN Returned(rates)
    ELSE IF Head(branch_hashes) \notin DOMAIN component_rates THEN Raised("KeyError")
    ELSE SumLoop(Tail(branch_hashes), component_rates,
                 AddInPlace(rates, component_rates[Head(branch_hashes)]))

calc_composite_rates(branch_hashes, component_rates, nlevels) ==
    SumLoop(branch_hashes, component_rates, np_zeros(nlevels))

\* np.array(rows): a list of n rows of one length m has shape (n, m), an
\* empty list has shape (0,)
np_array(rows) ==
    [shape |-> IF rows = <<>> THEN <<0>> ELSE <<Len(rows), Len(rows[1])>>,
     rows |-> rows]

\* build_branch_rates: the number of levels is read off the first value of
\* component_rates; the rows are computed in order and the first exception
\* ends the call
build_branch_rates(branch_hash_table, component_rates) ==
    IF DOMAIN component_rates = {} THEN Raised("StopIteration")
    ELSE LET nimtl == Len(component_rates[CHOOSE d \in DOMAIN component_rates : TRUE])
             rows == [i \in 1..Len(branch_hash_table) |->
                         calc_composite_rates(branch_hash_table[i], component_rates, nimtl)]
             bad == FirstBad([i \in 1..Len(rows) |-> rows[i].err # "none"])
         IN IF bad # 0 THEN Raised(rows[bad].err)
            ELSE Returned(np_array([i \in 1..Len(rows) |-> The(rows[i].value)]))

RatesInit ==
    /\ br_table \in HashTables
    /\ br_rates \in ComponentRateMaps
    /\ br_out = None

RatesIdle ==
    /\ br_table = <<>>
    /\ br_rates = <<>>
    /\ br_out = None

\* build_branch_rates(branch_hash_table, component_rates)
CallBuildBranchRates ==
    /\ br_out = None
    /\ br_out' = Some(build_branch_rates(br_table, br_rates))
    /\ UNCHANGED <<br_table, br_rates>>
    /\ UNCHANGED nonRatesVars

-----------------------------------------------------------------------------
(* aggregation_calc.py: calculate_aggs                                     *)

\* the tokens tried, and float(token) in thousandths for those float parses
AggTokens == {"mean", "std", "cov", "0.1", "0.5", "0.50"}
FloatOf == ("0.1" :> 100) @@ ("0.5" :> 500) @@ ("0.50" :> 500)

is_float(value) == value \in DOMAIN FloatOf

\* a variant that never finds the value
index_NotFound(lst, value) == None

\* index(lst, value): the first position of value, None if there is none
index(lst, value) ==
    IF \E i \in 1..Len(lst) : lst[i] = value
    THEN Some(CHOOSE i \in 1..Len(lst) : lst[i] = value /\ \A j \in 1..(i - 1) : lst[j] # value)
    ELSE None

\* a list of points in ascending order
RECURSIVE SortedPoints(_)
SortedPoints(pts) ==
    IF pts = <<>> THEN <<>>
    ELSE LET lo == CHOOSE i \in 1..Len(pts) :
                      /\ \A j \in 1..Len(pts) : pts[i] <= pts[j]
                      /\ \A j \in 1..(i - 1) : pts[j] # pts[i]
         IN <<pts[lo]>> \o SortedPoints([k \in 1..(Len(pts) - 1) |->
                                            IF k < lo THEN pts[k] ELSE pts[k + 1]])

\* the quantile points in ascending order
QuantilePoints_Sorted(agg_types) ==
    LET pts == SelectSeq(agg_types, is_float)
    IN SortedPoints([k \in 1..Len(pts) |-> FloatOf[pts[k]]])

\* quantile_points = [float(pt) for pt in agg_types if is_float(pt)]
QuantilePoints(agg_types) ==
    LET pts == SelectSeq(agg_types, is_float)
    IN [k \in 1..Len(pts) |-> FloatOf[pts[k]]]

\* branch_rates[:, i]
Column(branch_rates, i) == [b \in 1..Len(branch_rates.rows) |-> branch_rates.rows[b][i]]

\* the calculators, as functions of their arguments: the weighted mean and
\* standard deviation of every level, their ratio, and one weighted quantile
\* per point, in the order of the points
weighted_avg_and_std(branch_rates, weights) ==
    [mean |-> [l \in 1..branch_rates.shape[2] |->
                  [fn |-> "mean", values |-> Column(branch_rates, l), weights |-> weights]],
     std |-> [l \in 1..branch_rates.shape[2] |->
                  [fn |-> "std", values |-> Column(branch_rates, l), weights |-> weights]]]

calculators_cov(mean, std) == [l \in 1..Len(mean) |-> [fn |-> "cov", mean |-> mean[l], std |-> std[l]]]

weighted_quantiles(values, weights, quantile_points) ==
    [k \in 1..Len(quantile_points) |->
        [fn |-> "quantile", q |-> quantile_points[k], values |-> values, weights |-> weights]]

\* the place of row i among the rows a boolean mask selects
MaskRank(mask, i) == Cardinality({j \in 1..i : mask[j]})

\* calculate_aggs; empty is what np.empty((naggs, nlevels)) holds
calculate_aggs(branch_rates, weights, agg_types, empty) ==
    LET idx_mean == index(agg_types, "mean")
        idx_std == index(agg_types, "std")
        idx_cov == index(agg_types, "cov")
        idx_quantile == [i \in 1..Len(agg_types) |-> is_float(agg_types[i])]
        quantile_points == QuantilePoints(agg_types)
        nlevels == branch_rates.shape[2]
        naggs == Len(agg_types)
        shared == idx_mean # None \/ idx_std # None \/ idx_cov # None
        ms == weighted_avg_and_std(branch_rates, weights)
        cov == calculators_cov(ms.mean, ms.std)
        quantiles == [l \in 1..nlevels |->
                        weighted_quantiles(Column(branch_rates, l), weights, quantile_points)]
        row(i) ==
            IF idx_cov = Some(i) THEN cov
            ELSE IF idx_std = Some(i) THEN ms.std
            ELSE IF idx_mean = Some(i) THEN ms.mean
            ELSE IF quantile_points # <<>> /\ idx_quantile[i]
                 THEN [l \in 1..nlevels |-> quantiles[l][MaskRank(idx_quantile, i)]]
            ELSE empty[i]
    IN [aggs |-> [shape |-> <<naggs, nlevels>>, rows |-> [i \in 1..naggs |-> row(i)]],
        shared_calls |-> IF shared THEN 1 ELSE 0,
        quantile_calls |-> IF quantile_points # <<>> THEN nlevels ELSE 0]

\* what freshly allocated memory may hold
Garbage == {[fn |-> "uninitialised", word |-> k] : k \in {1, 2}}

\* np.empty((naggs, nlevels)) holding g everywhere
np_empty(naggs, nlevels, g) == [i \in 1..naggs |-> [l \in 1..nlevels |-> g]]

\* the inputs tried
AggTypeLists == UNION {[1..n -> AggTokens] : n \in 1..MaxAggs}
PermutationsOf(n) == {p \in [1..n -> 1..n] : \A i, j \in 1..n : p[i] = p[j] => i = j}
BranchRateArrays ==
    {np_array([b \in 1..2 |-> [l \in 1..NLevels |-> k * b + l]]) : k \in {1, 2}}
TheWeights == <<Norm(1, 3), Norm(2, 3)>>

\* agg_types reordered by p
Permuted(agg_types, p) == [i \in 1..Len(agg_types) |-> agg_types[p[i]]]

AggsInit ==
    /\ ag_rates \in BranchRateArrays
    /\ ag_weights = TheWeights
    /\ ag_types \in AggTypeLists
    /\ ag_perm \in PermutationsOf(Len(ag_types))
    /\ ag_out = None
    /\ ag_out_perm = None

AggsIdle ==
    /\ ag_rates = None
    /\ ag_weights = <<>>
    /\ ag_types = <<>>
    /\ ag_perm = <<>>
    /\ ag_out = None
    /\ ag_out_perm = None

\* calculate_aggs(branch_rates, weights, agg_types)
CallCalculateAggs ==
    /\ ag_out = None
    /\ \E g \in Garbage :
          ag_out' = Some(calculate_aggs(ag_rates, ag_weights, ag_types,
                                        np_empty(Len(ag_types), ag_rates.shape[2], g)))
    /\ UNCHANGED <<ag_rates, ag_weights, ag_types, ag_perm, ag_out_perm>>
    /\ UNCHANGED nonAggsVars

\* calculate_aggs(branch_rates, weights, p(agg_types))
CallCalculateAggsPermuted ==
    /\ ag_out_perm = None
    /\ \E g \in Garbage :
          ag_out_perm' = Some(calculate_aggs(ag_rates, ag_weights, Permuted(ag_types, ag_perm),
                                             np_empty(Len(ag_types), ag_rates.shape[2], g)))
    /\ UNCHANGED <<ag_rates, ag_weights, ag_types, ag_perm, ag_out>>
    /\ UNCHANGED nonAggsVars

-----------------------------------------------------------------------------
(* aggregation_calc.py: calc_aggregation                                   *)

RECURSIVE Pow2(_)
Pow2(k) == IF k = 0 THEN 1 ELSE 2 * Pow2(k - 1)

RECURSIVE Log2(_)
Log2(x) == IF x <= 1 THEN 0 ELSE 1 + Log2(x \div 2)

\* the probability 1 - 2^-k of exceedance in one year
ProbOfRate(k) == Norm(Pow2(k) - 1, Pow2(k))

\* calculators.prob_to_rate(prob, inv_time = 1): -ln(1 - prob) / inv_time, in
\* units of ln 2, for the probabilities 1 - 2^-k
prob_to_rate(prob) == Log2(prob[2] \div (prob[2] - prob[1]))

\* calculators.rate_to_prob(hazard, 1.0) on an array of aggregate rates
rate_to_prob(hazard) ==
    [shape |-> hazard.shape,
     rows |-> [i \in 1..Len(hazard.rows) |->
                 [l \in 1..Len(hazard.rows[i]) |-> [fn |-> "rate_to_prob", rate |-> hazard.rows[i][l]]]]]

\* the digests of the store: (sources_digest, gmms_digest)
CalcDigests == {<<"s1", "g1">>, <<"s2", "g1">>}

\* row j of a scratch file, for the digest pair d
FileRow(j, d) ==
    [sources_digest |-> d[1], gmms_digest |-> d[2],
     values |-> [l \in 1..NLevels |-> ProbOfRate(j + l)]]

\* scratch files: at least one row (generate_agg_jobs writes no empty table)
ScratchFiles ==
    {[j \in 1..Len(ds) |-> FileRow(j, ds[j])] :
        ds \in UNION {[1..n -> CalcDigests] : n \in 1..MaxFileRows}}

\* the shared branch hash tables tried
CalcHashTables ==
    UNION {[1..n -> [1..k -> CalcDigests]] : n \in 1..MaxRows, k \in 1..MaxRowLen}

\* load_realizations: the table read from the file
load_realizations(rows) == rows

\* convert_probs_to_rates: a 'rates' column replaces the 'values' column
convert_probs_to_rates(probs) ==
    [j \in 1..Len(probs) |->
        [sources_digest |-> probs[j].sources_digest, gmms_digest |-> probs[j].gmms_digest,
         rates |-> [l \in 1..Len(probs[j].values) |-> prob_to_rate(probs[j].values[l])]]]

\* _create_component_dict: rates keyed by sources_digest + gmms_digest; of
\* rows with one digest the last is kept
create_component_dict(component_rates) ==
    LET digest(j) == <<component_rates[j].sources_digest, component_rates[j].gmms_digest>>
        keys == {digest(j) : j \in 1..Len(component_rates)}
        last(d) == CHOOSE j \in 1..Len(component_rates) :
                      digest(j) = d /\ \A k \in (j + 1)..Len(component_rates) : digest(k) # d
    IN [d \in keys |-> component_rates[last(d)].rates]

\* a variant that converts its argument to probability again before saving
save_aggregations_Converting(hazard, location, vs30, imt, agg_types) ==
    [i \in 1..Len(agg_types) |->
        [nloc_001 |-> location, vs30 |-> vs30, imt |-> imt, aggr |-> agg_types[i],
         values |-> rate_to_prob(hazard).rows[i]]]

\* a variant that saves every statistic under the first name
save_aggregations_FirstName(hazard, location, vs30, imt, agg_types) ==
    [i \in 1..Len(agg_types) |->
        [nloc_001 |-> location, vs30 |-> vs30, imt |-> imt, aggr |-> agg_types[1],
         values |-> hazard.rows[i]]]

\* save_aggregations: one HazardAggregateCurve per element of agg_types,
\* holding row i of the array it is given
save_aggregations(hazard, location, vs30, imt, agg_types) ==
    [i \in 1..Len(agg_types) |->
        [nloc_001 |-> location, vs30 |-> vs30, imt |-> imt, aggr |-> agg_types[i],
         values |-> hazard.rows[i]]]

\* the agg_types and the (location, vs30, imt) of the jobs tried
CalcAggTypes == {<<"0.5", "mean">>, <<"mean", "0.1", "std">>}
CalcTasks ==
    {[location |-> "L1", vs30 |-> 400, imt |-> "PGA"],
     [location |-> "L2", vs30 |-> 750, imt |-> "SA(1.0)"]}

NoLocals ==
    [branch_hash_table |-> None, weights |-> None, component |-> None,
     composite_rates |-> None, hazard |-> None, probs |-> None]

CalcInit ==
    /\ ca_pc = "attach"
    /\ \E t \in CalcHashTables, rows \in ScratchFiles, skip \in BOOLEAN,
          aggs \in CalcAggTypes, task \in CalcTasks :
          ca_args = [agg_types |-> aggs, skip_save |-> skip,
                     location |-> task.location, vs30 |-> task.vs30, imt |-> task.imt,
                     branch_hash_table |-> t, weights |-> [i \in 1..Len(t) |-> Norm(1, Len(t))],
                     file_rows |-> rows]
    /\ ca_file = TRUE
    /\ ca_local = NoLocals
    /\ ca_store = <<>>
    /\ ca_err = "none"
    /\ ca_trace = <<>>

CalcIdle ==
    /\ ca_pc = "idle"
    /\ ca_args = None
    /\ ca_file = FALSE
    /\ ca_local = NoLocals
    /\ ca_store = <<>>
    /\ ca_err = "none"
    /\ ca_trace = <<>>

\* an exception leaves calc_aggregation
CalcRaise(e) ==
    /\ ca_pc' = "raised"
    /\ ca_err' = e

\* lines 233-239: attach the shared regions by name; a region that does not
\* exist raises FileNotFoundError
CalcAttach ==
    /\ ca_pc = "attach"
    /\ ca_trace' = Append(ca_trace, "SharedMemory")
    /\ \E exists \in BOOLEAN :
          IF exists
          THEN /\ ca_pc' = "load"
               /\ ca_local' = [ca_local EXCEPT !.branch_hash_table = Some(ca_args.branch_hash_table),
                                               !.weights = Some(ca_args.weights)]
               /\ UNCHANGED ca_err
          ELSE /\ CalcRaise("FileNotFoundError")
               /\ UNCHANGED ca_local
    /\ UNCHANGED <<ca_args, ca_file, ca_store>>
    /\ UNCHANGED nonCalcVars

\* line 242
CalcLoad ==
    /\ ca_pc = "load"
    /\ ca_trace' = Append(ca_trace, "load_realizations")
    /\ IF ca_file
       THEN /\ ca_pc' = "convert"
            /\ ca_local' = [ca_local EXCEPT !.component = Some(load_realizations(ca_args.file_rows))]
            /\ UNCHANGED ca_err
       ELSE /\ CalcRaise("FileNotFoundError")
            /\ UNCHANGED ca_local
    /\ UNCHANGED <<ca_args, ca_file, ca_store>>
    /\ UNCHANGED nonCalcVars

\* line 247
CalcConvert ==
    /\ ca_pc = "convert"
    /\ ca_trace' = Append(ca_trace, "convert_probs_to_rates")
    /\ ca_pc' = "dict"
    /\ ca_local' = [ca_local EXCEPT !.component = Some(convert_probs_to_rates(The(ca_local.component)))]
    /\ UNCHANGED <<ca_args, ca_file, ca_store, ca_err>>
    /\ UNCHANGED nonCalcVars

\* line 252
CalcDict ==
    /\ ca_pc = "dict"
    /\ ca_trace' = Append(ca_trace, "_create_component_dict")
    /\ ca_pc' = "build"
    /\ ca_local' = [ca_local EXCEPT !.component = Some(create_component_dict(The(ca_local.component)))]
    /\ UNCHANGED <<ca_args, ca_file, ca_store, ca_err>>
    /\ UNCHANGED nonCalcVars

\* line 258
CalcBuild ==
    /\ ca_pc = "build"
    /\ ca_trace' = Append(ca_trace, "build_branch_rates")
    /\ LET r == build_branch_rates(The(ca_local.branch_hash_table), The(ca_local.component))
       IN IF r.err = "none"
          THEN /\ ca_pc' = "aggs"
               /\ ca_local' = [ca_local EXCEPT !.composite_rates = r.value]
               /\ UNCHANGED ca_err
          ELSE /\ CalcRaise(r.err)
               /\ UNCHANGED ca_local
    /\ UNCHANGED <<ca_args, ca_file, ca_store>>
    /\ UNCHANGED nonCalcVars

\* line 263
CalcAggs ==
    /\ ca_pc = "aggs"
    /\ ca_trace' = Append(ca_trace, "calculate_aggs")
    /\ ca_pc' = "to_prob"
    /\ \E g \in Garbage :
          LET rates == The(ca_local.composite_rates)
              r == calculate_aggs(rates, The(ca_local.weights), ca_args.agg_types,
                                  np_empty(Len(ca_args.agg_types), rates.shape[2], g))
          IN ca_local' = [ca_local EXCEPT !.hazard = Some(r.aggs)]
    /\ UNCHANGED <<ca_args, ca_file, ca_store, ca_err>>
    /\ UNCHANGED nonCalcVars

\* line 267
CalcToProb ==
    /\ ca_pc = "to_prob"
    /\ ca_trace' = Append(ca_trace, "rate_to_prob")
    /\ ca_pc' = "save"
    /\ ca_local' = [ca_local EXCEPT !.probs = Some(rate_to_prob(The(ca_local.hazard)))]
    /\ UNCHANGED <<ca_args, ca_file, ca_store, ca_err>>
    /\ UNCHANGED nonCalcVars

\* lines 268-272
CalcSave ==
    /\ ca_pc = "save"
    /\ ca_pc' = "unlink"
    /\ IF ca_args.skip_save
       THEN UNCHANGED <<ca_store, ca_trace>>
       ELSE /\ ca_trace' = Append(ca_trace, "save_aggregations")
            /\ ca_store' = ca_store \o save_aggregations(The(ca_local.probs), ca_args.location,
                                                         ca_args.vs30, ca_args.imt, ca_args.agg_types)
    /\ UNCHANGED <<ca_args, ca_file, ca_local, ca_err>>
    /\ UNCHANGED nonCalcVars

\* line 273
CalcUnlink ==
    /\ ca_pc = "unlink"
    /\ ca_trace' = Append(ca_trace, "unlink")
    /\ ca_pc' = "done"
    /\ ca_file' = FALSE
    /\ UNCHANGED <<ca_args, ca_local, ca_store, ca_err>>
    /\ UNCHANGED nonCalcVars

CalcNext ==
    \/ CalcAttach
    \/ CalcLoad
    \/ CalcConvert
    \/ CalcDict
    \/ CalcBuild
    \/ CalcAggs
    \/ CalcToProb
    \/ CalcSave
    \/ CalcUnlink

-----------------------------------------------------------------------------
(* aggregation.py: generate_agg_jobs and run_aggregation                   *)

\* the locations, vs30s and imts a run may be given
LocationPool ==
    <<[code |-> "L1", nloc_0 |-> "A"], [code |-> "L2", nloc_0 |-> "B"],
      [code |-> "L3", nloc_0 |-> "A"]>>
Vs30Pool == <<400, 750, 1000>>

\* args.site_params.vs30s is a list of positive integers: it may name a value twice
Vs30Lists ==
    {SubSeq(Vs30Pool, 1, n) : n \in 1..Len(Vs30Pool)} \cup {<<Vs30Pool[1], Vs30Pool[1]>>}
ImtPool == <<"PGA", "SA(1.0)", "SA(2.0)">>

\* the (sources_digest, gmms_digest) of the component branches of the run
ComponentDigests == <<<<"s1", "g1">>, <<"s2", "g2">>>>

\* what the realization store holds for one (location, imt) slice: one
\* record per component branch, no record, another number of records, or as
\* many records as there are component branches with one of them stored
\* twice, or stored for the digests paired the other way round
StoreSlices == {"ok", "none", "wrong", "duplicate", "cross"}

\* lines 72-97: the rows of the slice's table; every row passes the filter,
\* which asks for sources_digest among the components' source digests and
\* gmms_digest among their gmm digests, each on its own
SliceRows(slice) ==
    CASE slice = "ok" -> ComponentDigests
      [] slice = "none" -> <<>>
      [] slice = "wrong" -> <<ComponentDigests[1]>>
      [] slice = "duplicate" -> <<ComponentDigests[1], ComponentDigests[1]>>
      [] slice = "cross" -> <<<<ComponentDigests[1][1], ComponentDigests[2][2]>>,
                              <<ComponentDigests[2][1], ComponentDigests[1][2]>>>>

\* lines 99-103: the exception the generator raises for a table, or "none"
SliceCheck(table) ==
    IF Len(table) = 0 THEN "Exception"
    ELSE IF Len(table) # Len(ComponentDigests) THEN "Exception"
    ELSE "none"

\* the distinct elements of a sequence, in order of first occurrence
RECURSIVE Distinct(_)
Distinct(seq) ==
    IF seq = <<>> THEN <<>>
    ELSE LET rest == Distinct(SubSeq(seq, 1, Len(seq) - 1))
             x == seq[Len(seq)]
         IN IF x \in Range(rest) THEN rest ELSE Append(rest, x)

\* bin_locations: the partition keys in order of first occurrence
location_bins(locations) == Distinct([i \in 1..Len(locations) |-> locations[i].nloc_0])

\* the (vs30, location, imt) slices in the order generate_agg_jobs visits them
JobKeys(vs30s, locations, imts) ==
    LET bins == location_bins(locations)
    IN Concat([v \in 1..Len(vs30s) |->
          Concat([k \in 1..Len(bins) |->
             LET ls == SelectSeq(locations, LAMBDA l : l.nloc_0 = bins[k])
             IN Concat([i \in 1..Len(ls) |->
                   [j \in 1..Len(imts) |->
                       [vs30 |-> vs30s[v], nloc_0 |-> bins[k],
                        location |-> ls[i].code, imt |-> imts[j]]]])])])

\* line 108: the scratch file path of a slice
filepath(job) == <<job.vs30, job.nloc_0, job.location, job.imt>>

\* the location lists a run may name, inline or in a locations file
LocationLists == {SubSeq(LocationPool, 1, nl) : nl \in 1..Len(LocationPool)}

\* a locations file: its locations and, if it has a vs30 column, one vs30 per row
LocationFiles ==
    {[locations |-> ls, vs30 |-> v] :
        ls \in LocationLists, v \in {None} \cup {Some(SubSeq(Vs30Pool, 1, n)) : n \in 1..Len(Vs30Pool)}}

\* SiteArgs.has_vs30: the header of the file names a vs30 column
has_vs30(file) == file.vs30 # None

\* SiteArgs.check_locations: the site parameters the validator accepts
check_locations(site_params) ==
    LET file_has_vs30 == site_params.locations_file # None
                         /\ has_vs30(The(site_params.locations_file))
    IN /\ ~(site_params.locations_file # None /\ site_params.locations # None)
       /\ ~(file_has_vs30 /\ site_params.vs30s # None)
       /\ ~(~file_has_vs30 /\ site_params.vs30s = None)

\* the site parameters a run may be given
SiteParams ==
    {sp \in [locations : {None} \cup {Some(ls) : ls \in LocationLists},
             locations_file : {None} \cup {Some(f) : f \in {g \in LocationFiles :
                                  g.vs30 # None => Len(The(g.vs30)) = Len(g.locations)}},
             vs30s : {None} \cup {Some(v) : v \in Vs30Lists}] : check_locations(sp)}

\* itertools.product(coded_locations, vs30s) as Site objects
SiteProduct(coded_locations, vs30s) ==
    Concat([i \in 1..Len(coded_locations) |->
               [j \in 1..Len(vs30s) |-> [location |-> coded_locations[i].code, vs30 |-> vs30s[j]]]])

\* aggregation_setup.get_sites
get_sites(locations_file, locations, vs30s) ==
    IF locations_file # None /\ locations # None THEN Raised("ValueError")
    ELSE IF locations = None /\ locations_file = None
    THEN IF vs30s # None THEN Raised("UnboundLocalError") ELSE Raised("ValueError")
    ELSE LET coded_locations == IF locations # None THEN The(locations)
                                ELSE The(locations_file).locations
         IN IF vs30s # None THEN Returned(SiteProduct(coded_locations, The(vs30s)))
            ELSE IF locations_file # None
            THEN IF The(locations_file).vs30 = None THEN Raised("AttributeError")
                 ELSE Returned([i \in 1..Len(coded_locations) |->
                                   [location |-> coded_locations[i].code,
                                    vs30 |-> The(The(locations_file).vs30)[i]]])
            ELSE Raised("ValueError")

\* what generate_agg_jobs is given: get_locations(args.site_params.locations)
\* and args.site_params.vs30s (lines 201, 206-207)
DispatchLocations(args) == IF args.locations = None THEN <<>> ELSE The(args.locations)
DispatchVs30s(args) == IF args.vs30s = None THEN <<>> ELSE The(args.vs30s)

\* the size of a run: the sites named and the slices the dispatcher visits
RunSize(args) ==
    LET sites == get_sites(args.locations_file, args.locations, args.vs30s)
    IN IF sites.err # "none" THEN 0 ELSE Len(The(sites.value)) * Len(args.imts)

\* the runs tried: up to MaxJobs (site, imt) pairs
RunInputs ==
    {a \in {[locations |-> sp.locations, locations_file |-> sp.locations_file,
             vs30s |-> sp.vs30s, imts |-> SubSeq(ImtPool, 1, ni)] :
                sp \in SiteParams, ni \in 1..Len(ImtPool)} : RunSize(a) <= MaxJobs}

\* constants.BRANCH_HASH_TABLE_SHM_NAME and constants.WEIGHTS_SHM_NAME
ShmNames == {"branch_hash_table", "weights"}

\* a variant that creates the pool before the logic tree is built
RunSteps_PoolFirst ==
    <<"get_sites", "get_logic_trees", "ProcessPoolExecutor", "HazardLogicTree", "weights",
      "branch_hash_table", "component_branches", "AggSharedArgs", "get_locations",
      "get_realizations_dataset">>

\* the statements of run_aggregation up to the creation of the pool, in order
RunSteps ==
    <<"get_sites", "get_logic_trees", "HazardLogicTree", "weights", "branch_hash_table",
      "component_branches", "AggSharedArgs", "get_locations", "get_realizations_dataset",
      "ProcessPoolExecutor">>

RunInit ==
    /\ ra_pc = "setup"
    /\ ra_args \in RunInputs
    /\ LET keys == JobKeys(DispatchVs30s(ra_args), DispatchLocations(ra_args), ra_args.imts)
       IN \E store \in [Range(keys) -> StoreSlices] :
             ra_jobs = [k \in 1..Len(keys) |-> [key |-> keys[k], store |-> store[keys[k]]]]
    /\ ra_sites = None
    /\ ra_next = 1
    /\ ra_futures = <<>>
    /\ ra_files = {}
    /\ ra_num_jobs = 0
    /\ ra_num_failed = None
    /\ ra_seen = {}
    /\ ra_err = "none"
    /\ ra_step = 0
    /\ ra_pool = "none"
    /\ ra_shm \in {{}, ShmNames}

RunIdle ==
    /\ ra_pc = "idle"
    /\ ra_jobs = <<>>
    /\ ra_next = 1
    /\ ra_futures = <<>>
    /\ ra_files = {}
    /\ ra_num_jobs = 0
    /\ ra_num_failed = None
    /\ ra_seen = {}
    /\ ra_err = "none"
    /\ ra_step = 0
    /\ ra_pool = "none"
    /\ ra_shm = {}
    /\ ra_args = <<>>
    /\ ra_sites = None

Finished(status) == status \in {"returned", "raised"}
Running == {k \in 1..Len(ra_futures) : ra_futures[k] = "running"}

\* lines 149-203, one statement at a time: sites, trees, weights,
\* branch_hash_table, component_branches, the shared arguments, the locations
\* and the dataset; an exception in one of them leaves run_aggregation; the
\* last statement creates the pool.  get_sites (line 155) is given
\* locations_file, locations and vs30s; get_locations (line 201) is given
\* args.site_params.locations alone, which is None when a locations file is
\* used: the library then raises or finds no location
RunSetup ==
    /\ ra_pc = "setup"
    /\ ra_step < Len(RunSteps)
    /\ ra_step' = ra_step + 1
    /\ LET step == RunSteps[ra_step + 1]
           sites == get_sites(ra_args.locations_file, ra_args.locations, ra_args.vs30s)
           proceed == /\ ra_pc' = IF ra_step + 1 = Len(RunSteps) THEN "enumerate" ELSE ra_pc
                      /\ UNCHANGED ra_err
       IN IF step = "ProcessPoolExecutor"
          THEN /\ ra_pool' = "open"
               /\ proceed
               /\ UNCHANGED ra_sites
          ELSE /\ UNCHANGED ra_pool
               /\ \E ok \in BOOLEAN :
                     IF step = "get_sites" /\ ok /\ sites.err = "none"
                     THEN proceed /\ ra_sites' = sites.value
                     ELSE IF step = "get_locations" /\ ~ok /\ ra_args.locations = None
                     THEN ra_pc' = "aborted" /\ ra_err' = "TypeError" /\ UNCHANGED ra_sites
                     ELSE IF ok /\ step # "get_sites"
                     THEN proceed /\ UNCHANGED ra_sites
                     ELSE ra_pc' = "aborted" /\ ra_err' = "SetupError" /\ UNCHANGED ra_sites
    /\ UNCHANGED <<ra_jobs, ra_next, ra_futures, ra_files, ra_num_jobs, ra_num_failed, ra_seen,
                   ra_shm, ra_args>>
    /\ UNCHANGED nonRunVars

\* lines 205-221 with generate_agg_jobs lines 62-114: the generator takes
\* len(vs30s) (line 65), which raises when args.site_params.vs30s is None;
\* it slices the next job's table and raises on no or a wrong number of
\* records; otherwise it writes the scratch file and yields, and the
\* dispatcher submits the job
RunEnumerate ==
    /\ ra_pc = "enumerate"
    /\ ra_args.vs30s = None \/ ra_next <= Len(ra_jobs)
    /\ IF ra_args.vs30s = None
       THEN /\ ra_pc' = "aborting"
            /\ ra_err' = "TypeError"
            /\ UNCHANGED <<ra_files, ra_futures, ra_num_jobs, ra_next>>
       ELSE IF SliceCheck(SliceRows(ra_jobs[ra_next].store)) = "none"
       THEN /\ ra_files' = ra_files \cup {filepath(ra_jobs[ra_next].key)}
            /\ ra_futures' = Append(ra_futures, "pending")
            /\ ra_num_jobs' = ra_num_jobs + 1
            /\ ra_next' = ra_next + 1
            /\ UNCHANGED <<ra_pc, ra_err>>
       ELSE /\ ra_pc' = "aborting"
            /\ ra_err' = "Exception"
            /\ UNCHANGED <<ra_files, ra_futures, ra_num_jobs, ra_next>>
    /\ UNCHANGED <<ra_jobs, ra_num_failed, ra_seen, ra_step, ra_pool, ra_shm>>
    /\ UNCHANGED <<ra_args, ra_sites>>
    /\ UNCHANGED nonRunVars

\* line 223: the generator is exhausted
RunEnumerated ==
    /\ ra_pc = "enumerate"
    /\ ra_args.vs30s # None
    /\ ra_next > Len(ra_jobs)
    /\ ra_pc' = "collect"
    /\ ra_num_failed' = Some(0)
    /\ UNCHANGED <<ra_jobs, ra_next, ra_futures, ra_files, ra_num_jobs, ra_seen, ra_err,
                   ra_step, ra_pool, ra_shm>>
    /\ UNCHANGED <<ra_args, ra_sites>>
    /\ UNCHANGED nonRunVars

\* a free process of the pool takes the oldest pending job
WorkerStart ==
    /\ Cardinality(Running) < NumWorkers
    /\ \E k \in 1..Len(ra_futures) :
          /\ ra_futures[k] = "pending"
          /\ \A j \in 1..(k - 1) : ra_futures[j] # "pending"
          /\ ra_futures' = [ra_futures EXCEPT ![k] = "running"]
    /\ UNCHANGED <<ra_pc, ra_jobs, ra_next, ra_files, ra_num_jobs, ra_num_failed, ra_seen, ra_err,
                   ra_step, ra_pool, ra_shm>>
    /\ UNCHANGED <<ra_args, ra_sites>>
    /\ UNCHANGED nonRunVars

\* calc_aggregation raises, or returns having deleted its scratch file; it
\* can return only if it could attach the shared regions by name (lines
\* 233-239), found its scratch file (lines 242, 273) and found the rates of
\* every component branch in the table (line 258)
WorkerFinish ==
    /\ \E k \in Running :
          \E outcome \in {"returned", "raised"} :
             /\ outcome = "returned" =>
                    /\ ShmNames \subseteq ra_shm
                    /\ filepath(ra_jobs[k].key) \in ra_files
                    /\ Range(ComponentDigests) \subseteq Range(SliceRows(ra_jobs[k].store))
             /\ ra_futures' = [ra_futures EXCEPT ![k] = outcome]
             /\ ra_files' = IF outcome = "returned"
                            THEN ra_files \ {filepath(ra_jobs[k].key)}
                            ELSE ra_files
    /\ UNCHANGED <<ra_pc, ra_jobs, ra_next, ra_num_jobs, ra_num_failed, ra_seen, ra_err,
                   ra_step, ra_pool, ra_shm>>
    /\ UNCHANGED <<ra_args, ra_sites>>
    /\ UNCHANGED nonRunVars

\* lines 224-227: as_completed yields a finished future
RunCollect ==
    /\ ra_pc = "collect"
    /\ \E k \in 1..Len(ra_futures) :
          /\ k \notin ra_seen
          /\ Finished(ra_futures[k])
          /\ ra_seen' = ra_seen \cup {k}
          /\ ra_num_failed' = IF ra_futures[k] = "raised"
                              THEN Some(The(ra_num_failed) + 1)
                              ELSE ra_num_failed
    /\ UNCHANGED <<ra_pc, ra_jobs, ra_next, ra_futures, ra_files, ra_num_jobs, ra_err,
                   ra_step, ra_pool, ra_shm>>
    /\ UNCHANGED <<ra_args, ra_sites>>
    /\ UNCHANGED nonRunVars

\* as_completed is exhausted; the pool shuts down; lines 252-258 report
RunReport ==
    /\ ra_pc = "collect"
    /\ ra_seen = 1..Len(ra_futures)
    /\ ra_pc' = "done"
    /\ ra_pool' = "shutdown"
    /\ UNCHANGED <<ra_jobs, ra_next, ra_futures, ra_files, ra_num_jobs, ra_num_failed, ra_seen, ra_err,
                   ra_step, ra_shm>>
    /\ UNCHANGED <<ra_args, ra_sites>>
    /\ UNCHANGED nonRunVars

\* the exception of the generator leaves the with block: the pool's shutdown
\* waits for every submitted job, then the exception leaves run_aggregation
RunAbort ==
    /\ ra_pc = "aborting"
    /\ \A k \in 1..Len(ra_futures) : Finished(ra_futures[k])
    /\ ra_pc' = "aborted"
    /\ ra_pool' = "shutdown"
    /\ UNCHANGED <<ra_jobs, ra_next, ra_futures, ra_files, ra_num_jobs, ra_num_failed, ra_seen, ra_err,
                   ra_step, ra_shm>>
    /\ UNCHANGED <<ra_args, ra_sites>>
    /\ UNCHANGED nonRunVars

RunNext ==
    \/ RunSetup
    \/ RunEnumerate
    \/ RunEnumerated
    \/ WorkerStart
    \/ WorkerFinish
    \/ RunCollect
    \/ RunReport
    \/ RunAbort

-----------------------------------------------------------------------------
(* logic_tree.py: HazardLogicTree.__init__ on the caller's objects         *)

\* copy.deepcopy: a new tree object, equal to the one copied
deepcopy_Alias(heap, id) == [heap |-> heap, id |-> id]

deepcopy(heap, id) == [heap |-> [heap EXCEPT !.hlt = heap[id]], id |-> "hlt"]

\* the SRM trees given to the constructions: one branch set
ConstructSrmTrees == {t \in SrmTrees : Len(t.branch_sets) = 1}

NoProperties == [weights |-> None, branch_hash_table |-> None, component_branches |-> None]

ConstructInit ==
    /\ co_orig \in GmcmTrees
    /\ co_heap = [caller |-> co_orig, hlt |-> None]
    /\ co_srm = None
    /\ co_prev = None
    /\ co_hlt = None
    /\ co_ret = NoProperties
    /\ co_err = "none"
    /\ co_n = 0

ConstructIdle ==
    /\ co_orig = None
    /\ co_heap = None
    /\ co_srm = None
    /\ co_prev = None
    /\ co_hlt = None
    /\ co_ret = NoProperties
    /\ co_err = "none"
    /\ co_n = 0

\* HazardLogicTree(srm_logic_tree, gmcm_logic_tree): the GMCM tree is copied
\* and the copy's branch_sets list is overwritten with the filtered list of
\* the tree passed in; nothing is raised
Construct ==
    /\ co_n < MaxConstructions
    /\ \E srm_logic_tree \in ConstructSrmTrees :
          LET c == deepcopy(co_heap, "caller")
              built == HazardLogicTree(srm_logic_tree, co_heap.caller)
          IN /\ co_heap' = [c.heap EXCEPT ![c.id].branch_sets = built.gmcm_branch_sets]
             /\ co_hlt' = Some([trts |-> built.trts, gmcm_logic_tree |-> c.id,
                                composite_branches |-> <<>>, component_branches |-> <<>>])
             /\ co_prev' = IF co_srm = None THEN None ELSE Some(The(co_hlt).trts)
             /\ co_srm' = Some(srm_logic_tree)
    /\ co_ret' = NoProperties
    /\ co_err' = "none"
    /\ co_n' = co_n + 1
    /\ UNCHANGED co_orig
    /\ UNCHANGED nonConstructVars

\* the HazardLogicTree as its properties read it
TheTree ==
    [trts |-> The(co_hlt).trts,
     gmcm_branch_sets |-> co_heap[The(co_hlt).gmcm_logic_tree].branch_sets,
     composite_branches |-> The(co_hlt).composite_branches,
     component_branches |-> The(co_hlt).component_branches]

\* logic_tree.weights
ConstructedWeights ==
    /\ co_hlt # None
    /\ LET r == CompositeBranchesProperty(The(co_srm), TheTree)
       IN /\ co_hlt' = Some([The(co_hlt) EXCEPT !.composite_branches = r.list])
          /\ IF r.raised
             THEN co_err' = "NotImplementedError" /\ co_ret' = co_ret
             ELSE co_err' = "none" /\ co_ret' = [co_ret EXCEPT !.weights = Some(WeightsOf(r.list))]
    /\ UNCHANGED <<co_heap, co_orig, co_srm, co_prev, co_n>>
    /\ UNCHANGED nonConstructVars

\* logic_tree.branch_hash_table
ConstructedBranchHashTable ==
    /\ co_hlt # None
    /\ LET r == CompositeBranchesProperty(The(co_srm), TheTree)
       IN /\ co_hlt' = Some([The(co_hlt) EXCEPT !.composite_branches = r.list])
          /\ IF r.raised
             THEN co_err' = "NotImplementedError" /\ co_ret' = co_ret
             ELSE co_err' = "none"
                  /\ co_ret' = [co_ret EXCEPT !.branch_hash_table = Some(HashTableOf(r.list))]
    /\ UNCHANGED <<co_heap, co_orig, co_srm, co_prev, co_n>>
    /\ UNCHANGED nonConstructVars

\* logic_tree.component_branches
ConstructedComponentBranches ==
    /\ co_hlt # None
    /\ LET r == ComponentBranchesProperty(The(co_srm), TheTree)
       IN /\ co_hlt' = Some([The(co_hlt) EXCEPT !.component_branches = r.list])
          /\ IF r.raised
             THEN co_err' = "NotImplementedError" /\ co_ret' = co_ret
             ELSE co_err' = "none"
                  /\ co_ret' = [co_ret EXCEPT !.component_branches = Some(r.list)]
    /\ UNCHANGED <<co_heap, co_orig, co_srm, co_prev, co_n>>
    /\ UNCHANGED nonConstructVars

ConstructNext ==
    \/ Construct
    \/ ConstructedWeights
    \/ ConstructedBranchHashTable
    \/ ConstructedComponentBranches

-----------------------------------------------------------------------------
(* logic_tree.py: iterating a HazardCompositeBranch                        *)

\* the composite branches iterated over: one to MaxIterLen component branches
IterBranches == {[k \in 1..n |-> [component |-> k]] : n \in 1..MaxIterLen}

IterInit ==
    /\ it_branches \in IterBranches
    /\ it_counter = None
    /\ it_state = [i \in 1..MaxIterations |-> "unstarted"]
    /\ it_out = [i \in 1..MaxIterations |-> <<>>]
    /\ it_overlap = FALSE

IterIdle ==
    /\ it_branches = <<>>
    /\ it_counter = None
    /\ it_state = <<>>
    /\ it_out = <<>>
    /\ it_overlap = FALSE

\* __iter__ (lines 95-98): iter(composite_branch) sets the counter of the
\* object to 0 and returns the object itself
CompositeIter(i) ==
    /\ it_state[i] = "unstarted"
    /\ it_counter' = Some(0)
    /\ it_state' = [it_state EXCEPT ![i] = "active"]
    /\ it_overlap' = (it_overlap \/ \E j \in 1..MaxIterations : j # i /\ it_state[j] = "active")
    /\ UNCHANGED <<it_branches, it_out>>
    /\ UNCHANGED nonIterVars

\* __next__ (lines 100-106), called by iteration i
CompositeNext(i) ==
    /\ it_state[i] = "active"
    /\ IF The(it_counter) >= Len(it_branches)
       THEN /\ it_state' = [it_state EXCEPT ![i] = "stopped"]
            /\ UNCHANGED <<it_counter, it_out>>
       ELSE /\ it_counter' = Some(The(it_counter) + 1)
            /\ it_out' = [it_out EXCEPT ![i] = Append(@, it_branches[The(it_counter) + 1])]
            /\ UNCHANGED it_state
    /\ UNCHANGED <<it_branches, it_overlap>>
    /\ UNCHANGED nonIterVars

IterNext ==
    \/ \E i \in 1..MaxIterations : CompositeIter(i)
    \/ \E i \in 1..MaxIterations : CompositeNext(i)

-----------------------------------------------------------------------------
(* version2/logic_tree.py: the weights of its HazardLogicTree              *)

\* version2 HazardComponentBranch.__post_init__ (line 39): the weight of the
\* source branch times the weights of the GMCM branches
V2HazardComponentBranch(source_branch, gmcm_branches) ==
    [source_branch |-> source_branch,
     gmcm_branches |-> gmcm_branches,
     weight |-> MathProd(<<source_branch.weight>>
                         \o [j \in 1..Len(gmcm_branches) |-> gmcm_branches[j].weight])]

\* version2 HazardCompositeBranch.__post_init__ (line 79): the product of
\* the weights of its component branches
V2HazardCompositeBranch(branches) ==
    [branches |-> branches,
     weight |-> MathProd([i \in 1..Len(branches) |-> branches[i].weight])]

\* version2 HazardLogicTree.composite_branches (lines 129-138); h is the
\* tree object, which version2 builds as logic_tree.py does (lines 103-114)
V2CompositeBranches(tree, h) ==
    LET pairs == CompositePairs(tree, h)
    IN [p \in 1..Len(pairs) |->
           V2HazardCompositeBranch(
               [i \in 1..Len(pairs[p][1].branches) |->
                   V2HazardComponentBranch(pairs[p][1].branches[i],
                                           MatchingBranches(pairs[p][1].branches[i], pairs[p][2]))])]

V2Init ==
    /\ v2_srm \in SrmTrees
    /\ v2_gmcm \in GmcmTrees
    /\ Combinations(v2_srm, v2_gmcm) <= MaxComposites
    /\ v2_weights = None
    /\ v2_main = None

V2Idle ==
    /\ v2_srm = None
    /\ v2_gmcm = None
    /\ v2_weights = None
    /\ v2_main = None

\* version2: HazardLogicTree(srm, gmcm).weights (line 176)
CallV2Weights ==
    /\ v2_weights = None
    /\ v2_weights' = Some(WeightsOf(V2CompositeBranches(v2_srm, HazardLogicTree(v2_srm, v2_gmcm))))
    /\ UNCHANGED <<v2_srm, v2_gmcm, v2_main>>
    /\ UNCHANGED nonV2Vars

\* logic_tree.py: HazardLogicTree(srm, gmcm).weights on a new object
CallMainWeights ==
    /\ v2_main = None
    /\ LET r == GenerateCompositeBranches(v2_srm, HazardLogicTree(v2_srm, v2_gmcm))
       IN v2_main' = Some(IF r.raised THEN Raised("NotImplementedError")
                          ELSE Returned(WeightsOf(r.list)))
    /\ UNCHANGED <<v2_srm, v2_gmcm, v2_weights>>
    /\ UNCHANGED nonV2Vars

V2Next == CallV2Weights \/ CallMainWeights

-----------------------------------------------------------------------------
(* hazard_aggregation/aggregation.py: process_local and its workers        *)

PoolWorkers == 1..NumWorkers

PoolInit ==
    /\ pq_pc = "enqueue"
    /\ pq_tasks \in 0..MaxTasks
    /\ pq_fails \in SUBSET (1..pq_tasks)
    /\ pq_next = 1
    /\ pq_pills_put = 0
    /\ pq_queue = <<>>
    /\ pq_unfinished = 0
    /\ pq_worker = [w \in PoolWorkers |-> [state |-> "waiting", task |-> None]]
    /\ pq_taken = [t \in 1..pq_tasks |-> 0]
    /\ pq_pills = [w \in PoolWorkers |-> 0]
    /\ pq_result_queue = <<>>
    /\ pq_results = <<>>
    /\ pq_num_jobs = 0

PoolIdle ==
    /\ pq_pc = "idle"
    /\ pq_tasks = 0
    /\ pq_fails = {}
    /\ pq_next = 1
    /\ pq_pills_put = 0
    /\ pq_queue = <<>>
    /\ pq_unfinished = 0
    /\ pq_worker = <<>>
    /\ pq_taken = <<>>
    /\ pq_pills = <<>>
    /\ pq_result_queue = <<>>
    /\ pq_results = <<>>
    /\ pq_num_jobs = 0

\* lines 318-339: task_queue.put(t); num_jobs += 1 (the workers were started
\* at lines 306-308, before the first put)
PoolPutTask ==
    /\ pq_pc = "enqueue"
    /\ pq_next <= pq_tasks
    /\ pq_queue' = Append(pq_queue, Some(pq_next))
    /\ pq_unfinished' = pq_unfinished + 1
    /\ pq_num_jobs' = pq_num_jobs + 1
    /\ pq_next' = pq_next + 1
    /\ UNCHANGED <<pq_pc, pq_tasks, pq_fails, pq_pills_put, pq_worker, pq_taken, pq_pills,
                   pq_result_queue, pq_results>>
    /\ UNCHANGED nonPoolVars

\* lines 342-343: one poison pill per worker
PoolPutPill ==
    /\ pq_pc = "enqueue"
    /\ pq_next > pq_tasks
    /\ pq_pills_put < NumWorkers
    /\ pq_queue' = Append(pq_queue, None)
    /\ pq_unfinished' = pq_unfinished + 1
    /\ pq_pills_put' = pq_pills_put + 1
    /\ UNCHANGED <<pq_pc, pq_tasks, pq_fails, pq_next, pq_worker, pq_taken, pq_pills,
                   pq_result_queue, pq_results, pq_num_jobs>>
    /\ UNCHANGED nonPoolVars

\* line 346: task_queue.join() returns when every item put has been marked done
PoolJoin ==
    /\ pq_pc = "enqueue"
    /\ pq_next > pq_tasks
    /\ pq_pills_put = NumWorkers
    /\ pq_unfinished = 0
    /\ pq_pc' = "collect"
    /\ UNCHANGED <<pq_tasks, pq_fails, pq_next, pq_pills_put, pq_queue, pq_unfinished, pq_worker,
                   pq_taken, pq_pills, pq_result_queue, pq_results, pq_num_jobs>>
    /\ UNCHANGED nonPoolVars

\* lines 348-352: while num_jobs: results.append(result_queue.get())
PoolGetResult ==
    /\ pq_pc = "collect"
    /\ pq_num_jobs > 0
    /\ pq_result_queue # <<>>
    /\ pq_results' = Append(pq_results, Head(pq_result_queue))
    /\ pq_result_queue' = Tail(pq_result_queue)
    /\ pq_num_jobs' = pq_num_jobs - 1
    /\ UNCHANGED <<pq_pc, pq_tasks, pq_fails, pq_next, pq_pills_put, pq_queue, pq_unfinished,
                   pq_worker, pq_taken, pq_pills>>
    /\ UNCHANGED nonPoolVars

\* lines 354-356: process_local returns results
PoolReturn ==
    /\ pq_pc = "collect"
    /\ pq_num_jobs = 0
    /\ pq_pc' = "done"
    /\ UNCHANGED <<pq_tasks, pq_fails, pq_next, pq_pills_put, pq_queue, pq_unfinished, pq_worker,
                   pq_taken, pq_pills, pq_result_queue, pq_results, pq_num_jobs>>
    /\ UNCHANGED nonPoolVars

\* AggregationWorkerMP.run, lines 226-231: nt = task_queue.get(); a pill is
\* marked done and ends the loop
WorkerGet(w) ==
    /\ pq_worker[w].state = "waiting"
    /\ pq_queue # <<>>
    /\ pq_queue' = Tail(pq_queue)
    /\ IF Head(pq_queue) = None
       THEN /\ pq_unfinished' = pq_unfinished - 1
            /\ pq_worker' = [pq_worker EXCEPT ![w] = [state |-> "exited", task |-> None]]
            /\ pq_pills' = [pq_pills EXCEPT ![w] = @ + 1]
            /\ UNCHANGED pq_taken
       ELSE /\ pq_worker' = [pq_worker EXCEPT ![w] = [state |-> "processing", task |-> Head(pq_queue)]]
            /\ pq_taken' = [pq_taken EXCEPT ![The(Head(pq_queue))] = @ + 1]
            /\ UNCHANGED <<pq_unfinished, pq_pills>>
    /\ UNCHANGED <<pq_pc, pq_tasks, pq_fails, pq_next, pq_pills_put, pq_result_queue, pq_results,
                   pq_num_jobs>>
    /\ UNCHANGED nonPoolVars

\* lines 233-236: process_location_list(nt), then task_done() and
\* result_queue.put(...); nothing in run catches an exception of
\* process_location_list, which ends the worker process
WorkerProcess(w) ==
    /\ pq_worker[w].state = "processing"
    /\ IF The(pq_worker[w].task) \in pq_fails
       THEN /\ pq_worker' = [pq_worker EXCEPT ![w] = [state |-> "died", task |-> None]]
            /\ UNCHANGED <<pq_unfinished, pq_result_queue>>
       ELSE /\ pq_worker' = [pq_worker EXCEPT ![w] = [state |-> "waiting", task |-> None]]
            /\ pq_unfinished' = pq_unfinished - 1
            /\ pq_result_queue' = Append(pq_result_queue, The(pq_worker[w].task))
    /\ UNCHANGED <<pq_pc, pq_tasks, pq_fails, pq_next, pq_pills_put, pq_queue, pq_taken, pq_pills,
                   pq_results, pq_num_jobs>>
    /\ UNCHANGED nonPoolVars

PoolNext ==
    \/ PoolPutTask
    \/ PoolPutPill
    \/ PoolJoin
    \/ PoolGetResult
    \/ PoolReturn
    \/ \E w \in PoolWorkers : WorkerGet(w)
    \/ \E w \in PoolWorkers : WorkerProcess(w)

-----------------------------------------------------------------------------
(* Specifications                                                          *)

\* the properties of one HazardLogicTree, accessed in any order
Init == TreeInit /\ BranchIdle /\ RatesIdle /\ AggsIdle /\ CalcIdle /\ RunIdle /\ ConstructIdle /\ IterIdle /\ V2Idle /\ PoolIdle

Next == TreeNext

Spec == Init /\ [][Next]_vars

\* one HazardCompositeBranch built from given component branches
InitBranch == BranchInit /\ TreeIdle /\ RatesIdle /\ AggsIdle /\ CalcIdle /\ RunIdle /\ ConstructIdle /\ IterIdle /\ V2Idle /\ PoolIdle

NextBranch == ConstructCompositeBranch

SpecBranch == InitBranch /\ [][NextBranch]_vars

\* one call of build_branch_rates
InitRates == RatesInit /\ TreeIdle /\ BranchIdle /\ AggsIdle /\ CalcIdle /\ RunIdle /\ ConstructIdle /\ IterIdle /\ V2Idle /\ PoolIdle

NextRates == CallBuildBranchRates

SpecRates == InitRates /\ [][NextRates]_vars

\* calculate_aggs called for agg_types and for a permutation of it
InitAggs == AggsInit /\ TreeIdle /\ BranchIdle /\ RatesIdle /\ CalcIdle /\ RunIdle /\ ConstructIdle /\ IterIdle /\ V2Idle /\ PoolIdle

NextAggs == CallCalculateAggs \/ CallCalculateAggsPermuted

SpecAggs == InitAggs /\ [][NextAggs]_vars

\* one execution of calc_aggregation in a worker
InitCalc == CalcInit /\ TreeIdle /\ BranchIdle /\ RatesIdle /\ AggsIdle /\ RunIdle /\ ConstructIdle /\ IterIdle /\ V2Idle /\ PoolIdle

NextCalc == CalcNext

SpecCalc == InitCalc /\ [][NextCalc]_vars

\* one run of run_aggregation with its worker pool
InitRun == RunInit /\ TreeIdle /\ BranchIdle /\ RatesIdle /\ AggsIdle /\ CalcIdle /\ ConstructIdle /\ IterIdle /\ V2Idle /\ PoolIdle

NextRun == RunNext

SpecRun == InitRun /\ [][NextRun]_vars

\* the dispatcher keeps running, a free process takes a pending job, and
\* every started job eventually returns or raises
SpecRunFair ==
    /\ SpecRun
    /\ WF_vars(RunSetup \/ RunEnumerate \/ RunEnumerated \/ RunCollect \/ RunReport \/ RunAbort)
    /\ WF_vars(WorkerStart)
    /\ WF_vars(WorkerFinish)

\* HazardLogicTrees built in sequence from one GMCM tree object
InitConstruct ==
    ConstructInit /\ TreeIdle /\ BranchIdle /\ RatesIdle /\ AggsIdle /\ CalcIdle /\ RunIdle /\ IterIdle /\ V2Idle /\ PoolIdle

NextConstruct == ConstructNext

SpecConstruct == InitConstruct /\ [][NextConstruct]_vars

\* iterations over one HazardCompositeBranch, one after another or interleaved
InitIter ==
    IterInit /\ TreeIdle /\ BranchIdle /\ RatesIdle /\ AggsIdle /\ CalcIdle /\ RunIdle /\ V2Idle /\ PoolIdle
    /\ ConstructIdle

NextIter == IterNext

SpecIter == InitIter /\ [][NextIter]_vars

\* the weights of both HazardLogicTree classes for one pair of trees
InitV2 ==
    V2Init /\ TreeIdle /\ BranchIdle /\ RatesIdle /\ AggsIdle /\ CalcIdle /\ RunIdle /\ PoolIdle
    /\ ConstructIdle /\ IterIdle

NextV2 == V2Next

SpecV2 == InitV2 /\ [][NextV2]_vars

\* process_local with its worker processes
InitPool ==
    PoolInit /\ TreeIdle /\ BranchIdle /\ RatesIdle /\ AggsIdle /\ CalcIdle /\ RunIdle
    /\ ConstructIdle /\ IterIdle /\ V2Idle

NextPool == PoolNext

SpecPool == InitPool /\ [][NextPool]_vars

\* process_local keeps running, and so does every worker process that is alive
SpecPoolFair ==
    /\ SpecPool
    /\ WF_vars(PoolPutTask \/ PoolPutPill \/ PoolJoin \/ PoolGetResult \/ PoolReturn)
    /\ \A w \in PoolWorkers : WF_vars(WorkerGet(w) \/ WorkerProcess(w))


-----------------------------------------------------------------------------
(* Properties of the logic tree                                            *)

RECURSIVE SetProd(_)
SetProd(S) ==
    IF S = {} THEN One
    ELSE LET x == CHOOSE y \in S : TRUE IN RMul(x.weight, SetProd(S \ {x}))

\* the number of GMCM branch sets of the input tree an SRM branch matches
MatchCount(b) ==
    Cardinality({k \in 1..Len(gmcm.branch_sets) :
                    gmcm.branch_sets[k].tectonic_region_type \in b.tectonic_region_types})

\* every SRM branch's region types match exactly one GMCM branch set (the
\* weights of every branch set of the trees tried sum to 1)
ValidPair == \A i \in 1..Len(SrmBranches(srm)) : MatchCount(SrmBranches(srm)[i]) = 1

NSrmComposite == Len(SrmCompositeBranches(srm))
NGmcmComposite == Len(GmcmCompositeBranches(hlt.gmcm_branch_sets))

\* C1: for a valid tree pair (branch set weights sum to 1, every SRM branch
\* matches exactly one GMCM branch set) the weights returned by
\* HazardLogicTree.weights sum to 1, with and without correlations.
C1_WeightsSumToOne ==
    (ValidPair /\ ret.weights # None) => Sum(The(ret.weights)) = One

\* C7: the list returned by composite_branches has one element per
\* (srm composite, gmcm composite) pair; without correlations that is the
\* product of the sizes of the SRM branch sets and the filtered GMCM branch sets.
C7_Cardinality ==
    ret.composite_branches # None =>
        /\ Len(The(ret.composite_branches)) = NSrmComposite * NGmcmComposite
        /\ srm.correlations = <<>> =>
              Len(The(ret.composite_branches)) =
                  NatProd([k \in 1..Len(srm.branch_sets) |-> Len(srm.branch_sets[k])])
                  * NatProd([k \in 1..Len(hlt.gmcm_branch_sets) |->
                                Len(hlt.gmcm_branch_sets[k].branches)])

\* the SRM composite branch the i-th composite branch was built from
SourceIndex(i) == ((i - 1) \div NGmcmComposite) + 1

\* the distinct GMCM branch objects among the components of a composite branch
GsimObjects(cbr) == UNION {Range(cbr.branches[j].gmcm_branches) : j \in 1..Len(cbr.branches)}

\* C9: every composite branch the tree holds weighs the weight attribute of the
\* SRM composite branch it was built from times the weights of its GMCM
\* branches; the source weight is not recomputed from the SRM branch weights.
C9_SourceWeightVerbatim ==
    LET scb == SrmCompositeBranches(srm)
    IN \A i \in 1..Len(hlt.composite_branches) :
        hlt.composite_branches[i].weight =
            RMul(scb[SourceIndex(i)].weight, SetProd(GsimObjects(hlt.composite_branches[i])))

\* a composite branch built from a correlated SRM composite branch whose
\* weight is not the product of its branches' weights
C9_Witness ==
    /\ ret.weights # None
    /\ LET scb == SrmCompositeBranches(srm)
       IN \E i \in 1..Len(hlt.composite_branches) :
            scb[SourceIndex(i)].weight # DefaultCompositeWeight(scb[SourceIndex(i)].branches)

\* C10: whatever the order of the accesses, the values returned by
\* composite_branches, weights and branch_hash_table are index-aligned:
\* equal lengths, weights[i] the weight of composite_branches[i], and
\* branch_hash_table[i] the hash digests of its component branches in order.
C10_ParallelArrays ==
    /\ (ret.composite_branches # None /\ ret.weights # None) =>
          LET cbr == The(ret.composite_branches)
              w == The(ret.weights)
          IN /\ Len(w) = Len(cbr)
             /\ \A i \in 1..Len(cbr) : w[i] = cbr[i].weight
    /\ (ret.composite_branches # None /\ ret.branch_hash_table # None) =>
          LET cbr == The(ret.composite_branches)
              t == The(ret.branch_hash_table)
          IN /\ Len(t) = Len(cbr)
             /\ \A i \in 1..Len(cbr) :
                   /\ Len(t[i]) = Len(cbr[i].branches)
                   /\ \A j \in 1..Len(t[i]) : t[i][j] = cbr[i].branches[j].hash_digest
    /\ (ret.weights # None /\ ret.branch_hash_table # None) =>
          Len(The(ret.weights)) = Len(The(ret.branch_hash_table))

\* all three were returned, for a tree of several composite branches of
\* several components each
C10_Witness ==
    /\ ret.composite_branches # None
    /\ ret.weights # None
    /\ ret.branch_hash_table # None
    /\ Len(The(ret.composite_branches)) >= 2
    /\ Len(The(ret.composite_branches)[1].branches) >= 2


-----------------------------------------------------------------------------
(* Properties of a directly built composite branch                         *)

\* the GMCM branch objects the given component branches refer to
GivenGsims == UNION {Range(cb_branches[i].gmcm_branches) : i \in 1..Len(cb_branches)}

\* a GMCM branch's field values, without its identity
FieldsOf(g) ==
    [gsim_name |-> g.gsim_name, tectonic_region_type |-> g.tectonic_region_type,
     weight |-> g.weight]

\* C8 (as stated): the weight of a composite branch is source_weight times the
\* product of the weights of its distinct GMCM branch objects, two branches
\* counting as the same only if they are the same object
C8_UniqueByIdentity ==
    cb_built # None => The(cb_built).weight = RMul(cb_source_weight, SetProd(GivenGsims))

\* C8 (amended): the weight of a composite branch is source_weight times the
\* product of the weights of its GMCM branches with equal branches (the same
\* object, or objects equal field by field) counted once
C8_UniqueByEquality ==
    cb_built # None =>
        The(cb_built).weight = RMul(cb_source_weight, SetProd({FieldsOf(g) : g \in GivenGsims}))

\* a composite branch has been built from an object shared by two components,
\* a second object equal to it and a third that differs
C8_Witness ==
    /\ cb_built # None
    /\ \E i, j \in 1..Len(cb_branches) :
          i # j /\ cb_branches[i].gmcm_branches = cb_branches[j].gmcm_branches
    /\ \E g, h \in GivenGsims : g.oid # h.oid /\ FieldsOf(g) = FieldsOf(h)
    /\ \E g, h \in GivenGsims : FieldsOf(g) # FieldsOf(h)


-----------------------------------------------------------------------------
(* Properties of build_branch_rates                                        *)

\* how often digest d occurs in a row of the table
Occurrences(d, row) == Cardinality({j \in 1..Len(row) : row[j] = d})

RECURSIVE SumOver(_, _)
SumOver(S, f) ==
    IF S = {} THEN 0
    ELSE LET x == CHOOSE y \in S : TRUE IN f[x] + SumOver(S \ {x}, f)

\* the sum at level l of the rates of the digests listed in a row
RowSum(row, l) ==
    SumOver(Range(row), [d \in Range(row) |-> Occurrences(d, row) * br_rates[d][l]])

\* C4: the array build_branch_rates returns has one row per row of
\* branch_hash_table, in the same order; row i is the elementwise sum of
\* component_rates[d] over the digests d listed in branch_hash_table[i]; its
\* shape is (number of composite branches, number of levels).
C4_RowsAreSums ==
    (br_out # None /\ The(br_out).err = "none") =>
        LET a == The(The(br_out).value)
        IN /\ a.shape = <<Len(br_table), NLevels>>
           /\ Len(a.rows) = Len(br_table)
           /\ \A i \in 1..Len(br_table) :
                 /\ Len(a.rows[i]) = NLevels
                 /\ \A l \in 1..NLevels : a.rows[i][l] = RowSum(br_table[i], l)

\* an array was returned for a table of two different rows, one of them
\* listing two different digests
C4_Witness ==
    /\ br_out # None
    /\ The(br_out).err = "none"
    /\ Len(br_table) >= 2
    /\ br_table[1] # br_table[2]
    /\ \E j, k \in 1..Len(br_table[1]) : br_table[1][j] # br_table[1][k]


-----------------------------------------------------------------------------
(* Properties of calculate_aggs                                            *)

\* agg_types holds no token twice
DistinctTokens == \A i, j \in 1..Len(ag_types) : ag_types[i] = ag_types[j] => i = j

\* C6: for agg_types of distinct valid tokens and any permutation p of it,
\* calculate_aggs on p(agg_types) returns the rows of calculate_aggs on
\* agg_types permuted by p; each row holds the statistic its own token names.
C6_PermutationEquivariant ==
    (DistinctTokens /\ ag_out # None /\ ag_out_perm # None) =>
        LET a == The(ag_out).aggs
            b == The(ag_out_perm).aggs
        IN /\ b.shape = a.shape
           /\ \A i \in 1..Len(ag_types) : b.rows[i] = a.rows[ag_perm[i]]
           /\ \A i \in 1..Len(ag_types) : \A l \in 1..NLevels :
                 a.rows[i][l] \notin Garbage
                 /\ a.rows[i][l].fn = (IF is_float(ag_types[i]) THEN "quantile" ELSE ag_types[i])
                 /\ (is_float(ag_types[i]) => a.rows[i][l].q = FloatOf[ag_types[i]])

\* both calls returned for distinct tokens in which two quantiles of
\* different value surround a mean, std or cov, and the permutation moves
\* the quantiles
C6_Witness ==
    /\ DistinctTokens
    /\ ag_out # None
    /\ ag_out_perm # None
    /\ Len(ag_types) >= 3
    /\ is_float(ag_types[1])
    /\ ~is_float(ag_types[2])
    /\ is_float(ag_types[3])
    /\ FloatOf[ag_types[1]] # FloatOf[ag_types[3]]
    /\ ag_perm[1] = 3


-----------------------------------------------------------------------------
(* Properties of calc_aggregation                                          *)

\* the digests of the rows of the job's scratch file
FileDigests ==
    {<<ca_args.file_rows[j].sources_digest, ca_args.file_rows[j].gmms_digest>> :
        j \in 1..Len(ca_args.file_rows)}

\* the digests listed in the shared branch hash table
TableDigests == UNION {Range(ca_args.branch_hash_table[i]) : i \in 1..Len(ca_args.branch_hash_table)}

Called(f) == \E k \in 1..Len(ca_trace) : ca_trace[k] = f

\* C5: if a digest of branch_hash_table is absent from component_rates,
\* build_branch_rates raises a lookup error (KeyError) and returns no array:
\* no composite rate is ever built with the missing component as zero, and
\* calc_aggregation ends before calculate_aggs runs and before anything is
\* persisted.
C5_MissingDigestAborts ==
    ~(TableDigests \subseteq FileDigests) =>
        /\ ca_local.composite_rates = None
        /\ ca_local.hazard = None
        /\ ~Called("calculate_aggs")
        /\ ~Called("save_aggregations")
        /\ ca_store = <<>>
        /\ ca_pc \in {"attach", "load", "convert", "dict", "build", "raised"}
        /\ Called("build_branch_rates") => (ca_pc = "raised" /\ ca_err = "KeyError")

\* build_branch_rates raised for a table whose first row is complete and
\* whose second row lists a missing digest
C5_Witness ==
    /\ ca_pc = "raised"
    /\ ca_err = "KeyError"
    /\ Called("build_branch_rates")
    /\ Len(ca_args.branch_hash_table) >= 2
    /\ Range(ca_args.branch_hash_table[1]) \subseteq FileDigests
    /\ ~(Range(ca_args.branch_hash_table[2]) \subseteq FileDigests)


-----------------------------------------------------------------------------
(* Properties of run_aggregation                                           *)

\* run_aggregation has returned or an exception has left it
RunEnded == ra_pc \in {"done", "aborted"}

\* the submitted jobs whose execution raised
RaisedJobs == {k \in 1..Len(ra_futures) : ra_futures[k] = "raised"}

\* the jobs for which the store holds no or a wrong number of records
DataErrorJobs == {k \in 1..Len(ra_jobs) : SliceCheck(SliceRows(ra_jobs[k].store)) # "none"}

-----------------------------------------------------------------------------
(* Properties relating the hash table to the component branches            *)

\* the digests of a list of component branches
DigestsOf(component_branches) ==
    {component_branches[i].hash_digest : i \in 1..Len(component_branches)}

\* a component-rate map with one entry per element of component_branches
RateMapOf(component_branches) ==
    [d \in DigestsOf(component_branches) |-> [l \in 1..NLevels |-> 1]]

\* C11: every digest in a row of branch_hash_table is the hash_digest of a
\* branch in component_branches, so build_branch_rates over a map with one
\* entry per component branch meets no missing key.
C11_DigestsCovered ==
    (ret.branch_hash_table # None /\ ret.component_branches # None) =>
        LET table == The(ret.branch_hash_table)
            components == The(ret.component_branches)
        IN /\ \A i \in 1..Len(table) : Range(table[i]) \subseteq DigestsOf(components)
           /\ build_branch_rates(table, RateMapOf(components)).err # "KeyError"


-----------------------------------------------------------------------------
(* Properties of the region filter                                         *)

\* the region types used by the branch sets of an SRM tree
SrmRegions(tree) ==
    UNION {BranchSetTrts(tree.branch_sets[k]) : k \in 1..Len(tree.branch_sets)}

\* the positions of the caller's GMCM branch sets whose region type the SRM tree uses
KeptPositions == {k \in 1..Len(gmcm.branch_sets) :
                    gmcm.branch_sets[k].tectonic_region_type \in SrmRegions(srm)}

\* the i-th smallest kept position
KeptPosition(i) == CHOOSE k \in KeptPositions : Cardinality({j \in KeptPositions : j <= k}) = i

\* the SRM tree without the branch sets that use region type r
WithoutRegion(tree, r) ==
    [tree EXCEPT !.branch_sets = SelectSeq(tree.branch_sets, LAMBDA bs : r \notin BranchSetTrts(bs))]

\* the filtered list is the caller's list restricted to the kept positions, in order
FilteredInOrder ==
    /\ Len(hlt.gmcm_branch_sets) = Cardinality(KeptPositions)
    /\ \A i \in 1..Len(hlt.gmcm_branch_sets) :
          hlt.gmcm_branch_sets[i] = gmcm.branch_sets[KeptPosition(i)]

\* C12 as stated: the filtered GMCM branch sets are exactly the input branch
\* sets whose region type the SRM tree uses, in their original order, and
\* removing from the SRM tree every branch set of one region removes exactly
\* the GMCM branch sets of that region.
C12_RegionFilterAsStated ==
    /\ FilteredInOrder
    /\ \A r \in SrmRegions(srm) :
          HazardLogicTree(WithoutRegion(srm, r), gmcm).gmcm_branch_sets
              = SelectSeq(hlt.gmcm_branch_sets, LAMBDA bs : bs.tectonic_region_type # r)

\* C12 (amended): the filtered GMCM branch sets are exactly the input branch
\* sets whose region type the SRM tree uses, in their original order, and
\* removing from the SRM tree every branch set that uses one region removes
\* exactly the GMCM branch sets whose region type no remaining SRM branch set
\* uses: always those of that region, and those of another region only when
\* the removed branch sets were its only users.
C12_RegionFilter ==
    /\ FilteredInOrder
    /\ \A r \in SrmRegions(srm) :
          LET rest == WithoutRegion(srm, r)
              after == HazardLogicTree(rest, gmcm).gmcm_branch_sets
          IN /\ after = SelectSeq(hlt.gmcm_branch_sets,
                            LAMBDA bs : bs.tectonic_region_type \in SrmRegions(rest))
             /\ \A i \in 1..Len(after) : after[i].tectonic_region_type # r
             /\ \A i \in 1..Len(hlt.gmcm_branch_sets) :
                   hlt.gmcm_branch_sets[i].tectonic_region_type = r
                       => hlt.gmcm_branch_sets[i] \notin Range(after)

\* a tree pair whose filter drops a branch set and keeps two, and a region
\* whose removal from the SRM tree drops one more
C12_Witness ==
    /\ hlt # None
    /\ Len(hlt.gmcm_branch_sets) = 2
    /\ Len(gmcm.branch_sets) = 3
    /\ Len(srm.branch_sets) = 2
    /\ \E r \in SrmRegions(srm) :
          Len(HazardLogicTree(WithoutRegion(srm, r), gmcm).gmcm_branch_sets) = 1


-----------------------------------------------------------------------------
(* Properties of HazardLogicTree.__init__ on the caller's objects          *)

\* the branch sets of the unmodified original tree whose region type the
\* latest SRM tree uses
FilterOfOriginal ==
    SelectSeq(co_orig.branch_sets,
              LAMBDA bs : bs.tectonic_region_type \in SrmRegions(The(co_srm)))

\* C13: constructing a HazardLogicTree and accessing its properties leaves
\* the caller's GMCM tree object unchanged, and each of several
\* HazardLogicTrees built in sequence from that object holds the filter
\* result of the unmodified original tree.
C13_CallerTreeUnchanged ==
    /\ co_heap.caller = co_orig
    /\ co_hlt # None =>
          co_heap[The(co_hlt).gmcm_logic_tree].branch_sets = FilterOfOriginal

\* a second construction whose SRM tree uses a region the first did not, with
\* a property of the second tree accessed
C13_Witness ==
    /\ co_n = 2
    /\ co_prev = Some({"ASC"})
    /\ The(co_hlt).trts = {"SLAB"}
    /\ Len(co_orig.branch_sets) = 3
    /\ Len(co_heap.hlt.branch_sets) = 1
    /\ co_heap.hlt.branch_sets[1].tectonic_region_type = "SLAB"
    /\ co_ret.weights # None
    /\ co_ret.component_branches # None


\* the region types the latest SRM tree uses and the caller's GMCM tree has
\* no branch set for
UnmatchedRegions ==
    {r \in SrmRegions(The(co_srm)) :
        \A k \in 1..Len(co_orig.branch_sets) : co_orig.branch_sets[k].tectonic_region_type # r}

\* C14: if the SRM tree uses a region type for which the GMCM tree has no
\* branch set, the construction fails with an error: no HazardLogicTree
\* object is returned and no weights array or branch hash table is produced.
C14_UnmatchedRegionFails ==
    (co_srm # None /\ UnmatchedRegions # {}) =>
        /\ co_hlt = None
        /\ co_err # "none"
        /\ co_ret.weights = None
        /\ co_ret.branch_hash_table = None


-----------------------------------------------------------------------------
(* Properties of the component branches                                    *)

\* the component branches the properties have returned, alone or inside
\* composite branches
ReturnedComponents ==
    (IF ret.component_branches = None THEN {} ELSE Range(The(ret.component_branches)))
    \cup (IF ret.composite_branches = None THEN {}
          ELSE UNION {Range(The(ret.composite_branches)[i].branches) :
                        i \in 1..Len(The(ret.composite_branches))})

\* the GMCM branch sets of the filtered tree an SRM branch matches
MatchedSets(b) ==
    SelectSeq(hlt.gmcm_branch_sets,
              LAMBDA bs : bs.tectonic_region_type \in b.tectonic_region_types)

\* the digest of a component branch made of its source branch and its only GMCM branch
DigestOfOnly(c) == <<<<"S", c.source_branch.bs, c.source_branch.ix>>,
                     <<"G", c.gmcm_branches[1].gsim_name>>>>

\* C15: creating a HazardComponentBranch with more than one matched GMCM
\* branch raises NotImplementedError; no component branch with more than one
\* GMCM branch is ever returned, and every digest of a returned hash table is
\* that of a component branch with exactly one GMCM branch.
C15_MultiMatchFailsFast ==
    /\ \A p \in Range(ComponentPairs(srm, hlt)) \cup
                {<<pair[1].branches[i], MatchingBranches(pair[1].branches[i], pair[2])>> :
                    pair \in Range(CompositePairs(srm, hlt)), i \in 1..Len(srm.branch_sets)} :
          Len(p[2]) > 1 => ComponentRaises(p[2])
    /\ \A c \in ReturnedComponents : Len(c.gmcm_branches) = 1 /\ c.hash_digest = DigestOfOnly(c)
    /\ ret.branch_hash_table # None =>
          LET table == The(ret.branch_hash_table)
          IN /\ Len(table) = Len(hlt.composite_branches)
             /\ \A i \in 1..Len(table) :
                   /\ Len(table[i]) = Len(hlt.composite_branches[i].branches)
                   /\ \A j \in 1..Len(table[i]) :
                         LET c == hlt.composite_branches[i].branches[j]
                         IN Len(c.gmcm_branches) = 1 /\ table[i][j] = DigestOfOnly(c)

\* an access has raised on a tree in which every SRM branch matches a GMCM
\* branch set and one matches two
C15_Witness ==
    /\ hlt # None
    /\ err = "NotImplementedError"
    /\ \A i \in 1..Len(SrmBranches(srm)) : Len(MatchedSets(SrmBranches(srm)[i])) >= 1
    /\ \E i \in 1..Len(SrmBranches(srm)) : Len(MatchedSets(SrmBranches(srm)[i])) = 2
    /\ ret.component_branches = None
    /\ ret.branch_hash_table = None


\* the tuples of the Cartesian product of the branches of the GMCM branch
\* sets an SRM branch matches
MatchedTuples(b) ==
    Range(Product([k \in 1..Len(MatchedSets(b)) |-> MatchedSets(b)[k].branches]))

\* the sum over the SRM branches of the product of the sizes of the matching
\* GMCM branch sets
ExpectedComponentCount ==
    LET sb == SrmBranches(srm)
        n == [i \in 1..Len(sb) |->
                NatProd([k \in 1..Len(MatchedSets(sb[i])) |-> Len(MatchedSets(sb[i])[k].branches)])]
    IN SumOver(1..Len(sb), n)

\* C16: component_branches holds, for each SRM branch b, exactly one component
\* branch for each tuple of the product of the branches of the filtered GMCM
\* branch sets whose region type is in b's, and nothing else; its length is the
\* sum over the SRM branches of the product of the sizes of those branch sets.
C16_ComponentBranchesExact ==
    ret.component_branches # None =>
        LET cs == The(ret.component_branches)
            sb == SrmBranches(srm)
        IN /\ \A i \in 1..Len(sb) : \A t \in MatchedTuples(sb[i]) :
                 Cardinality({j \in 1..Len(cs) :
                     cs[j].source_branch = sb[i] /\ cs[j].gmcm_branches = t}) = 1
           /\ \A j \in 1..Len(cs) :
                 \E i \in 1..Len(sb) :
                    cs[j].source_branch = sb[i] /\ cs[j].gmcm_branches \in MatchedTuples(sb[i])
           /\ Len(cs) = ExpectedComponentCount


-----------------------------------------------------------------------------
(* Properties of a run: report, setup errors, shared regions, scratch files *)

C18_SetupErrorsBeforePool ==
    ra_err = "SetupError" =>
        /\ ra_pc = "aborted"
        /\ ra_pool = "none"
        /\ ra_futures = <<>>
        /\ ra_num_jobs = 0
        /\ ra_next = 1
        /\ ra_files = {}

\* the building of component_branches has raised, after weights and
\* branch_hash_table were built
C18_Witness ==
    /\ ra_err = "SetupError"
    /\ ra_pc = "aborted"
    /\ ra_step >= 1
    /\ RunSteps[ra_step] = "component_branches"
    /\ Len(ra_jobs) >= 2

Unfinished == {k \in 1..Len(ra_futures) : ~Finished(ra_futures[k])}

-----------------------------------------------------------------------------
(* Properties of the dispatch: one job per (site, intensity measure)       *)

\* the (location, vs30, imt) of each submitted job, in submission order
SubmittedTriples ==
    [k \in 1..Len(ra_futures) |->
        <<ra_jobs[k].key.location, ra_jobs[k].key.vs30, ra_jobs[k].key.imt>>]

\* the (location, vs30, imt) of every (site, imt) pair of the sites resolved in setup
SiteImtTriples ==
    Concat([i \in 1..Len(The(ra_sites)) |->
               [j \in 1..Len(ra_args.imts) |->
                   <<The(ra_sites)[i].location, The(ra_sites)[i].vs30, ra_args.imts[j]>>]])

CountIn(x, seq) == Cardinality({i \in 1..Len(seq) : seq[i] = x})

\* the run went past the setup of sites, trees and shared arguments and has ended
DispatchEnded ==
    /\ ra_pc \in {"done", "aborted"}
    /\ ra_sites # None
    /\ ra_err # "SetupError"

-----------------------------------------------------------------------------
(* Properties of calculate_aggs: the shared computation and the rows       *)

\* agg_types names one of mean, std, cov
NamesMoment(agg_types) == \E i \in 1..Len(agg_types) : agg_types[i] \in {"mean", "std", "cov"}

\* row i of the returned array holds, at every level, the statistic agg_types[i] names
RowAsNamed(out, agg_types, i) ==
    \A l \in 1..out.aggs.shape[2] :
        /\ out.aggs.rows[i][l] \notin Garbage
        /\ out.aggs.rows[i][l].fn = (IF is_float(agg_types[i]) THEN "quantile" ELSE agg_types[i])
        /\ is_float(agg_types[i]) => out.aggs.rows[i][l].q = FloatOf[agg_types[i]]

\* C22: calculate_aggs calls weighted_avg_and_std (and cov) once when
\* agg_types names mean, std or cov and not at all when it names none of
\* them; in that case it still returns every quantile row asked for.
C22_SharedComputationOnlyWhenNeeded ==
    ag_out # None =>
        /\ The(ag_out).shared_calls = (IF NamesMoment(ag_types) THEN 1 ELSE 0)
        /\ ~NamesMoment(ag_types) =>
               /\ The(ag_out).aggs.shape = <<Len(ag_types), NLevels>>
               /\ \A i \in 1..Len(ag_types) : RowAsNamed(The(ag_out), ag_types, i)

\* calculate_aggs returned for two different fractiles and nothing else
C22_Witness ==
    /\ ag_out # None
    /\ ~NamesMoment(ag_types)
    /\ Len(ag_types) = 2
    /\ FloatOf[ag_types[1]] # FloatOf[ag_types[2]]
    /\ The(ag_out).shared_calls = 0
    /\ The(ag_out).quantile_calls = NLevels

\* C29: for every agg_types of mean, std, cov and fractile tokens, tokens
\* repeated or not, the returned array has one row per token and NLevels
\* columns, and row i holds the statistic agg_types[i] names.
C29_EveryRowAssigned ==
    ag_out # None =>
        /\ The(ag_out).aggs.shape = <<Len(ag_types), NLevels>>
        /\ \A i \in 1..Len(ag_types) : RowAsNamed(The(ag_out), ag_types, i)

-----------------------------------------------------------------------------
(* Properties of calc_aggregation: rate space                              *)

\* the places of the calls of f in the execution so far
CallsOf(f) == {k \in 1..Len(ca_trace) : ca_trace[k] = f}

\* every call of f so far came after a call of g
After(f, g) == \A i \in CallsOf(f) : \E j \in CallsOf(g) : j < i

\* a statistic computed by calculate_aggs from rates: its inputs are sums of
\* the integer rates, none of them a probability
RateStatistic(x) ==
    /\ x.fn \in {"mean", "std", "quantile"}
    /\ \A b \in 1..Len(x.values) : x.values[b] \in Nat

-----------------------------------------------------------------------------
(* Properties of calc_aggregation: what is handed to the aggregate store   *)

\* C24: a job that ends without error and with skip_save false has handed
\* the store one record per element of agg_types, record i under the name
\* agg_types[i], for the job's location, vs30 and imt, holding row i of the
\* job's probability array; with skip_save true it has handed it none.
C24_OneRecordPerAggType ==
    ca_pc = "done" =>
        IF ca_args.skip_save THEN ca_store = <<>>
        ELSE /\ Len(ca_store) = Len(ca_args.agg_types)
             /\ \A i \in 1..Len(ca_store) :
                    /\ ca_store[i].aggr = ca_args.agg_types[i]
                    /\ ca_store[i].nloc_001 = ca_args.location
                    /\ ca_store[i].vs30 = ca_args.vs30
                    /\ ca_store[i].imt = ca_args.imt
                    /\ ca_store[i].values = The(ca_local.probs).rows[i]

\* a job of three statistics has saved its records and ended
C24_Witness ==
    /\ ca_pc = "done"
    /\ ~ca_args.skip_save
    /\ Len(ca_args.agg_types) = 3
    /\ Len(ca_store) = 3
    /\ ca_store[2].aggr = "0.1"

-----------------------------------------------------------------------------
(* Properties of the jobs' tables and scratch files                        *)

-----------------------------------------------------------------------------
(* Properties of iterating a HazardCompositeBranch                         *)

\* C27: every iteration over a HazardCompositeBranch is given its component
\* branches in order, each once: what it has been given so far is the start
\* of branches, and all of branches when the iteration has stopped, also
\* when another iteration over the same object was started meanwhile.
C27_IterationYieldsEachOnce ==
    \A i \in 1..Len(it_state) :
        /\ Len(it_out[i]) <= Len(it_branches)
        /\ it_out[i] = SubSeq(it_branches, 1, Len(it_out[i]))
        /\ it_state[i] = "stopped" => it_out[i] = it_branches

-----------------------------------------------------------------------------
(* Properties of the version2 logic tree                                   *)

\* both classes have returned their weights for the pair of trees
BothWeights ==
    /\ v2_weights # None
    /\ v2_main # None
    /\ The(v2_main).err = "none"

\* C28: for the same SRM and GMCM trees the version2 HazardLogicTree gives
\* the weights logic_tree.HazardLogicTree gives, in the same order, and they
\* sum to 1, also with correlations in the SRM tree and with one GMCM branch
\* serving several components of a composite branch.
C28_Version2SameWeights ==
    BothWeights =>
        /\ The(v2_weights) = The(The(v2_main).value)
        /\ Sum(The(v2_weights)) = One

-----------------------------------------------------------------------------
(* Properties of the queue-based worker pool                               *)

\* process_local has returned one result per task, every task was taken by
\* one worker and every worker has exited on one pill
PoolCompleted ==
    /\ pq_pc = "done"
    /\ Len(pq_results) = pq_tasks
    /\ \A t \in 1..pq_tasks : pq_taken[t] = 1
    /\ \A w \in PoolWorkers : pq_worker[w].state = "exited" /\ pq_pills[w] = 1

\* C30: with N workers and T tasks followed by N pills on the FIFO queue,
\* every task is taken by one worker, every worker exits after one pill, and
\* join() and the collection of results complete with T results, for every
\* interleaving and whether or not the processing of a task raises.
C30_PoolCompletes ==
    <>PoolCompleted

=============================================================================
